---------------------------- MODULE Spec2Model ----------------------------
(***************************************************************************)
(* Model of the Nervous-Sensors acquisition core:                          *)
(*   - the time-series buffer      (nervous_sensors/data_manager.py)       *)
(*   - the frame codec             (nervous_sensors/codec.py)              *)
(*   - the heart-rate extraction   (nervous_sensors/ecg_analyzer.py)       *)
(*   - the connection orchestrator (nervous_sensors/connection_manager.py, *)
(*     nervous_sensor.py, nervous_virtual.py)                              *)
(* Each part has its own next-state relation over the shared variables;    *)
(* the parts a specification does not exercise stay in their initial state.*)
(***************************************************************************)
EXTENDS Integers, Sequences, FiniteSets, TLC

VARIABLES
    \* ---- time-series buffer (DataManager) ----
    data,        \* DataManager.__data: the rows, oldest first; a row is <<time, value>>
    nAdds,       \* number of _add_data calls so far (bounds the run)
    nRows,       \* number of rows ever appended (the writer's sample clock)
    lastAdd,     \* the last _add_data call: batch size and store length before it
    qres,        \* the last get_latest_data call: its arguments and its outcome
    \* ---- frame codec (Codec) ----
    payload,     \* the serialized message handed to cobs.encode
    frame,       \* the bytes on the wire: stuffed payload and terminator
    decoded,     \* what cobs_decode produced for the frame
    cphase,      \* "idle", "encoded" or "decoded"
    \* ---- heart-rate analyzer (ECGAnalyzer); times in units of 0.01 s ----
    time_window, \* ECGAnalyzer.time_window: the timestamps of the analysis window
    history,     \* ECGAnalyzer.history_r_peak_idx: timestamps of the confirmed peaks
    previous,    \* ECGAnalyzer.previous_history_r_peak_idx: the previous snapshot
    hrOut,       \* the last update_hr call: its inputs, what it did and returned
    sinceGap,    \* the peaks confirmed since the last chunk that arrived after a gap
    nCalls,      \* number of update_hr calls so far (bounds the run)
    \* ---- connection orchestrator (ConnectionManager and its sensors) ----
    orch,        \* [mgr, sn, obs, ready]: the manager, the sensors, the observer's
                 \* counters, and the event loop's queue of tasks ready to run
    \* ---- units of the orchestrator and the sensors, run on their own ----
    fan,         \* one _run_parallel fan-out: its operation and its sub-tasks
    virt,        \* one virtual sensor: its events and its connect() coroutine
    hrs,         \* the HR sensor over the store of its ECG sensor: its marker
                 \* and what its _process_data calls fetched
    lk,          \* DataManager.__lock and the threads that take it
    cb           \* the data callback of a sensor: what its last call did

bufVars   == <<data, nAdds, nRows, lastAdd, qres>>
codecVars == <<payload, frame, decoded, cphase>>
hrVars    == <<time_window, history, previous, hrOut, sinceGap, nCalls>>
orchVars  == <<orch>>
unitVars  == <<fan, virt, hrs, lk, cb>>
vars      == <<bufVars, codecVars, hrVars, orchVars, unitVars>>

\* Python's None; a present optional value n is <<n>>.
None == <<>>
Some(n) == <<n>>

Max(a, b) == IF a >= b THEN a ELSE b
Min(a, b) == IF a <= b THEN a ELSE b

(***************************************************************************)
(*                         TIME-SERIES BUFFER                              *)
(***************************************************************************)
THRESH1 == 12000
THRESH2 == 20000

\* Bounds of the buffer runs.
MaxAdds == 4
MaxQueryN == 2

\* Batch sizes the writer uses: single rows, a pair, a batch that fills the
\* store to just below the upper threshold, and one larger than the threshold.
BatchSizes == {1, 2, THRESH2 - 3, THRESH2 + 5000}

\* Python's seq[start:] for a possibly negative start.
PySliceFrom(seq, start) ==
    IF start >= 0
    THEN SubSeq(seq, start + 1, Len(seq))
    ELSE SubSeq(seq, Max(Len(seq) + start, 0) + 1, Len(seq))

\* The rows of one batch: consecutive sample times after the rows already written.
NewRows(first, m) == [i \in 1..m |-> <<first + i, (first + i) % 7>>]

\* A variant of the truncation that keeps the oldest rows.
add_data_oldest(store, rows) ==
    LET ext == store \o rows
    IN  IF Len(ext) >= THRESH2 THEN SubSeq(ext, 1, THRESH1) ELSE ext

\* A variant of the truncation that compares with > instead of >=.
add_data_strict(store, rows) ==
    LET ext == store \o rows
    IN  IF Len(ext) > THRESH2 THEN PySliceFrom(ext, -THRESH1) ELSE ext

\* DataManager._add_data: extend, then truncate to the newest THRESH1 rows
\* once the length has reached THRESH2.
add_data(store, rows) ==
    LET ext == store \o rows
    IN  IF Len(ext) >= THRESH2 THEN PySliceFrom(ext, -THRESH1) ELSE ext

\* The body of get_latest_data's try block (all columns requested).
get_latest_data_try(store, last_n, latest_data) ==
    IF last_n # None /\ latest_data = None
    THEN IF last_n[1] = -1 \/ last_n[1] >= Len(store)
         THEN [kind |-> "return", rows |-> store]
         ELSE [kind |-> "return", rows |-> PySliceFrom(store, -last_n[1])]
    ELSE IF latest_data # None /\ last_n = None
    THEN [kind |-> "return",
          rows |-> SelectSeq(store, LAMBDA r : r[1] > latest_data[1])]
    ELSE [kind |-> "raise", rows |-> <<>>]

\* A variant whose handler lets the error out.
get_latest_data_reraise(store, last_n, latest_data) ==
    get_latest_data_try(store, last_n, latest_data)

\* DataManager.get_latest_data: whatever the try block raises is caught by
\* "except Exception" and an empty table is returned instead.
get_latest_data(store, last_n, latest_data) ==
    LET r == get_latest_data_try(store, last_n, latest_data)
    IN  IF r.kind = "raise" THEN [kind |-> "return", rows |-> <<>>] ELSE r

NoQuery == [called |-> FALSE, last_n |-> None, latest_data |-> None,
            kind |-> "none", rows |-> <<>>]
NoAdd   == [size |-> 0, before |-> 0]

InitBuffer ==
    /\ data = <<>>
    /\ nAdds = 0
    /\ nRows = 0
    /\ lastAdd = NoAdd
    /\ qres = NoQuery

\* The writer appends a batch of m rows.
AddData(m) ==
    /\ nAdds < MaxAdds
    /\ data' = add_data(data, NewRows(nRows, m))
    /\ nAdds' = nAdds + 1
    /\ nRows' = nRows + m
    /\ lastAdd' = [size |-> m, before |-> Len(data)]
    /\ qres' = NoQuery
    /\ UNCHANGED <<codecVars, hrVars, orchVars, unitVars>>

\* A consumer queries the store.  A query only reads, so its result does not
\* depend on earlier queries: one query is explored per store content.
GetLatestData(last_n, latest_data) ==
    /\ nAdds > 0
    /\ ~qres.called
    /\ LET r == get_latest_data(data, last_n, latest_data)
       IN  qres' = [called |-> TRUE, last_n |-> last_n, latest_data |-> latest_data,
                    kind |-> r.kind, rows |-> r.rows]
    /\ UNCHANGED <<data, nAdds, nRows, lastAdd>>
    /\ UNCHANGED <<codecVars, hrVars, orchVars, unitVars>>

\* The argument pairs <<last_n, latest_data>> the consumers use: each mode
\* alone, both together, and neither.
LastNArgs == {Some(n) : n \in (-1..MaxQueryN) \cup {THRESH2}}
SinceArgs == {Some(t) : t \in {0, nRows - 1, nRows}}
QueryArgs ==
    {<<n, None>> : n \in LastNArgs}
        \cup {<<None, t>> : t \in SinceArgs}
        \cup {<<Some(1), Some(0)>>, <<Some(-1), Some(nRows - 1)>>, <<None, None>>}

NextBuffer ==
    \/ \E m \in BatchSizes : AddData(m)
    \/ \E q \in QueryArgs : GetLatestData(q[1], q[2])

\* ---- the store of an ECG sensor, fed by decoded frames and queried by ----
\* ---- columns.  Times are in sample periods (1 / sampling_rate).       ----

\* Bounds of these runs: the frames received, the timestamps and the sample
\* blocks they carry, the arguments of the queries.
MaxFrames == 3
FrameTimes == {0, 1, 3}
FrameSamples == {<<2>>, <<4, 1>>}
MaxLastN == 3
MaxSince == 4

\* ECGDataManager.__init__: the header of the store.
Header == <<"Time (s)", "ECG (A.U.)">>

\* ECGDataManager._process_decoded_data: one row per sample, the i-th (from
\* 0) at timestamp + i * (1 / sampling_rate).
ecg_rows(timestamp, samples) ==
    [i \in 1..Len(samples) |-> <<timestamp + (i - 1), samples[i]>>]

\* The position in the header of a column name (the name is in the header).
ColumnOf(name) == CHOOSE i \in 1..Len(Header) : Header[i] = name

\* A list of columns or a column given by index or by name.
ByIndex(c) == [byIndex |-> TRUE, cols |-> c]
ByName(c) == [byIndex |-> FALSE, cols |-> c]

\* get_latest_data, before the lock: concerned_columns defaults to the header
\* and a list of indices is turned into names.
resolve_columns(concerned_columns) ==
    IF concerned_columns = None THEN Header
    ELSE LET c == concerned_columns[1]
         IN  IF c.byIndex
             THEN [i \in 1..Len(c.cols) |-> Header[c.cols[i] + 1]]
             ELSE c.cols

\* "if isinstance(latest_data_column, int): ... = self.__header[...]"
resolve_key(latest_data_column) ==
    IF latest_data_column.byIndex
    THEN Header[latest_data_column.cols + 1]
    ELSE latest_data_column.cols

\* data[concerned_columns] for one row.
Project(row, cols) == [i \in 1..Len(cols) |-> row[ColumnOf(cols[i])]]

Table(cols, rows) == [kind |-> "table", columns |-> cols, rows |-> rows]

\* A variant of the since mode that keeps the rows equal to the marker.
since_rows_inclusive(store, key, t) ==
    SelectSeq(store, LAMBDA r : r[ColumnOf(key)] >= t)

\* data[data[latest_data_column] > latest_data]
since_rows(store, key, t) ==
    SelectSeq(store, LAMBDA r : r[ColumnOf(key)] > t)

\* A variant of the last-N mode that treats last_n = 0 like any other count.
last_rows_counted(table, n) ==
    IF n = 0 THEN <<>> ELSE PySliceFrom(table, -n)

\* data[-last_n:]
last_rows(table, n) == PySliceFrom(table, -n)

\* DataManager.get_latest_data with all its arguments.  The result is a
\* table, or kind "none" when the function runs off its end and returns
\* None; an exception raised in the try block gives an empty table.
get_latest_data_columns(store, last_n, latest_data, latest_data_column, concerned_columns) ==
    LET cols == resolve_columns(concerned_columns)
        proj(rows) == [i \in 1..Len(rows) |-> Project(rows[i], cols)]
    IN  IF last_n # None /\ latest_data = None
        THEN IF last_n[1] = -1 \/ last_n[1] >= Len(store)
             THEN Table(cols, proj(store))
             ELSE Table(cols, last_rows(proj(store), last_n[1]))
        ELSE IF latest_data # None /\ last_n = None
        THEN LET key == resolve_key(latest_data_column)
             IN  IF \E i \in 1..Len(cols) : cols[i] = key
                 THEN Table(cols, proj(since_rows(store, key, latest_data[1])))
                 ELSE [kind |-> "none", columns |-> <<>>, rows |-> <<>>]
        ELSE Table(cols, <<>>)

\* data_callback: a frame is decoded into a timestamp (already relative to
\* the start time) and a block of samples, whose rows are added.  (A frame
\* that fails to decode adds nothing.)
DataCallback(timestamp, samples) ==
    /\ nAdds < MaxFrames
    /\ data' = add_data(data, ecg_rows(timestamp, samples))
    /\ nAdds' = nAdds + 1
    /\ nRows' = nRows + Len(samples)
    /\ lastAdd' = [size |-> Len(samples), before |-> Len(data)]
    /\ qres' = NoQuery
    /\ UNCHANGED <<codecVars, hrVars, orchVars, unitVars>>

\* A consumer queries the store, by columns.
Query(last_n, latest_data, latest_data_column, concerned_columns) ==
    /\ nAdds > 0
    /\ ~qres.called
    /\ LET r == get_latest_data_columns(data, last_n, latest_data,
                                        latest_data_column, concerned_columns)
       IN  qres' = [called |-> TRUE, last_n |-> last_n, latest_data |-> latest_data,
                    key |-> latest_data_column, concerned |-> concerned_columns,
                    kind |-> r.kind, columns |-> r.columns, rows |-> r.rows]
    /\ UNCHANGED <<data, nAdds, nRows, lastAdd>>
    /\ UNCHANGED <<codecVars, hrVars, orchVars, unitVars>>

\* The column subsets the consumers ask for, by name and by index, and the
\* default (None: all columns).
ColumnArgs ==
    {None}
        \cup {Some(ByName(c)) : c \in {<<Header[1]>>, <<Header[2]>>, Header,
                                       <<Header[2], Header[1]>>}}
        \cup {Some(ByIndex(c)) : c \in {<<0>>, <<1>>, <<0, 1>>}}
\* The timestamp column, by index (the default 0) and by name, and the
\* sample column used as the key.
KeyArgs == {ByIndex(0), ByName(Header[1]), ByIndex(1)}

NextStore ==
    \/ \E t \in FrameTimes, x \in FrameSamples : DataCallback(t, x)
    \/ \E n \in -1..MaxLastN, c \in ColumnArgs :
           Query(Some(n), None, ByIndex(0), c)
    \/ \E t \in -1..MaxSince, k \in KeyArgs, c \in ColumnArgs :
           Query(None, Some(t), k, c)

(***************************************************************************)
(*                             FRAME CODEC                                 *)
(***************************************************************************)
\* Bounds of the codec runs: short payloads over a few byte values, optionally
\* next to a long run of non-zero bytes around the 254-byte block limit.
MaxShortLen == 3
ByteSamples == {0, 1, 255}
RunLens == {0, 253, 254, 255}

RECURSIVE SeqsUpTo(_, _)
SeqsUpTo(S, n) ==
    IF n = 0 THEN {<<>>}
    ELSE LET shorter == SeqsUpTo(S, n - 1)
         IN  shorter \cup {Append(s, b) : s \in shorter, b \in S}

Run(n) == [i \in 1..n |-> 1 + (i % 200)]

Payloads ==
    LET short == SeqsUpTo(ByteSamples, MaxShortLen)
    IN  {Run(n) \o s : n \in RunLens, s \in short}
        \cup {s \o Run(n) : n \in RunLens, s \in short}

\* cobs.encode: the loop over the input bytes, then the final block.  The loop
\* only acts at a zero byte or at the 254th non-zero byte of a block, so the
\* model steps from one such index to the next.
NextStop(in, from, start) ==
    LET stops == {i \in from..Len(in) : in[i] = 0 \/ i - start = 253}
    IN  IF stops = {} THEN Len(in) + 1
        ELSE CHOOSE i \in stops : \A j \in stops : i <= j

RECURSIVE cobs_encode_loop(_, _, _, _, _)
cobs_encode_loop(in, from, start, final_zero, out) ==
    LET idx == NextStop(in, from, start)
    IN  IF idx > Len(in)
        THEN IF idx # start \/ final_zero
             THEN out \o <<idx - start + 1>> \o SubSeq(in, start, idx - 1)
             ELSE out
        ELSE IF in[idx] = 0
        THEN cobs_encode_loop(in, idx + 1, idx + 1, TRUE,
                              out \o <<idx - start + 1>> \o SubSeq(in, start, idx - 1))
        ELSE cobs_encode_loop(in, idx + 1, idx + 1, FALSE,
                              out \o <<255>> \o SubSeq(in, start, idx))

cobs_encode(in) == cobs_encode_loop(in, 1, 1, TRUE, <<>>)

\* cobs.decode: block by block; a zero byte in the input, or a length code that
\* runs past the end, is a DecodeError.
RECURSIVE cobs_decode_loop(_, _, _)
cobs_decode_loop(in, p, out) ==
    LET length == in[p]
        copy   == SubSeq(in, p + 1, Min(p + length - 1, Len(in)))
        next   == p + length
    IN  IF length = 0 \/ \E i \in 1..Len(copy) : copy[i] = 0
        THEN [err |-> TRUE, bytes |-> <<>>]
        ELSE IF next - 1 > Len(in)
        THEN [err |-> TRUE, bytes |-> <<>>]
        ELSE IF next - 1 < Len(in)
        THEN cobs_decode_loop(in, next,
                              IF length < 255 THEN out \o copy \o <<0>> ELSE out \o copy)
        ELSE [err |-> FALSE, bytes |-> out \o copy]

cobs_lib_decode(in) ==
    IF Len(in) = 0 THEN [err |-> FALSE, bytes |-> <<>>]
    ELSE cobs_decode_loop(in, 1, <<>>)

\* Python's seq[:-1].
PyDropLast(seq) == SubSeq(seq, 1, Len(seq) - 1)

\* Codec.time_encode after serialization: stuff the bytes, append the terminator.
time_encode(serialized_data) == cobs_encode(serialized_data) \o <<0>>

\* A variant that hands the whole frame, terminator included, to cobs.decode.
cobs_decode_keep_terminator(bytes) == cobs_lib_decode(bytes)

\* Codec.cobs_decode: drop the last byte, reverse the stuffing.
cobs_decode(bytes) == cobs_lib_decode(PyDropLast(bytes))

InitCodec ==
    /\ payload = <<>>
    /\ frame = <<>>
    /\ decoded = [err |-> FALSE, bytes |-> <<>>]
    /\ cphase = "idle"

\* The sender frames a payload.
Encode(p) ==
    /\ cphase = "idle"
    /\ payload' = p
    /\ frame' = time_encode(p)
    /\ cphase' = "encoded"
    /\ UNCHANGED decoded
    /\ UNCHANGED <<bufVars, hrVars, orchVars, unitVars>>

\* The receiver decodes the frame.
Decode ==
    /\ cphase = "encoded"
    /\ decoded' = cobs_decode(frame)
    /\ cphase' = "decoded"
    /\ UNCHANGED <<payload, frame>>
    /\ UNCHANGED <<bufVars, hrVars, orchVars, unitVars>>

NextCodec ==
    \/ \E p \in Payloads : Encode(p)
    \/ Decode

(***************************************************************************)
(*                        HEART-RATE ANALYZER                              *)
(* Times are integers in units of 0.01 s and the analyzer is built with    *)
(* fs = 100 Hz, so consecutive samples are one unit apart.  The signal     *)
(* values are not modelled: what the three detectors agree on is an input. *)
(***************************************************************************)
TIME_GAP_THRESHOLD == 1     \* 0.01 s
MinDistance == 30           \* min_distance = 0.3 s
EdgeSamples == 50           \* edge_time * fs = 0.5 s * 100 Hz
MinInterval == 30           \* 0.3 s
MaxInterval == 200          \* 2.0 s

\* Bounds of the analyzer runs.
WindowLen == 200            \* window_duration * fs: a 2 s window
MaxCalls == 3               \* update_hr calls per run
MaxPeaksPerCall == 3        \* peaks the detectors confirm in one call
PeakGrid == 20              \* confirmed peaks lie on multiples of 0.2 s

\* history_size: NervousHR builds the analyzer with history_size equal to
\* window_duration (5 s each); the model keeps them equal.
HistorySize == WindowLen

ChunkLens == {40, 100}
GapOffsets == {1, 2}         \* first timestamp minus the window's last one

Abs(x) == IF x < 0 THEN -x ELSE x

\* np.linspace(-(N - 1) / fs, 0, N)
InitialTimeWindow == [i \in 1..WindowLen |-> i - WindowLen]

\* seq without its k-th element (np.delete).
RemoveAt(seq, k) == SubSeq(seq, 1, k - 1) \o SubSeq(seq, k + 1, Len(seq))

\* np.diff
Diff(seq) == [i \in 1..(Len(seq) - 1) |-> seq[i + 1] - seq[i]]

RECURSIVE InsertSorted(_, _)
InsertSorted(seq, x) ==
    IF seq = <<>> THEN <<x>>
    ELSE IF x <= Head(seq) THEN <<x>> \o seq
    ELSE <<Head(seq)>> \o InsertSorted(Tail(seq), x)

RECURSIVE Sorted(_)
Sorted(seq) == IF seq = <<>> THEN <<>> ELSE InsertSorted(Sorted(Tail(seq)), Head(seq))

\* Twice np.median(seq), so that it stays an integer; None for nan (empty input).
Median2(seq) ==
    LET n == Len(seq)
        srt == Sorted(seq)
    IN  IF n = 0 THEN None
        ELSE IF n % 2 = 1 THEN Some(2 * srt[(n + 1) \div 2])
        ELSE Some(srt[n \div 2] + srt[n \div 2 + 1])

\* (sd_median - interval) / sd_median > 0.3 as numpy evaluates it, sd_median
\* being m2 / 2: false for nan; a division by zero gives +-inf or nan.
TooShort(m2, interval) ==
    IF m2 = None THEN FALSE
    ELSE IF m2[1] > 0 THEN 7 * m2[1] > 20 * interval
    ELSE IF m2[1] < 0 THEN 7 * m2[1] < 20 * interval
    ELSE interval < 0

\* (interval - sd_median) / sd_median > 0.3
TooLong(m2, interval) ==
    IF m2 = None THEN FALSE
    ELSE IF m2[1] > 0 THEN 20 * interval > 13 * m2[1]
    ELSE IF m2[1] < 0 THEN 20 * interval < 13 * m2[1]
    ELSE interval > 0

\* A variant of the rate in beats per second.
Rate_per_second(interval) == (2 * 10000 + interval) \div (2 * interval)

\* round(60.0 / interval, 2) in hundredths of a beat per minute.
Rate(interval) == (2 * 600000 + interval) \div (2 * interval)

EmptyWalk == [hr |-> <<>>, ts |-> <<>>, steps |-> <<>>]

\* A variant of the walk that advances past a peak it has just removed.
RECURSIVE hr_walk_advance(_, _, _, _)
hr_walk_advance(peaks, k, m2, acc) ==
    IF k > Len(peaks) THEN acc
    ELSE
    LET interval == peaks[k] - peaks[k - 1]
        step(v) == [from |-> peaks[k - 1], to |-> peaks[k], verdict |-> v,
                    before |-> Len(acc.hr),
                    after |-> Len(acc.hr) + (IF v = "rate" THEN 1 ELSE 0)]
    IN  IF TooShort(m2, interval)
        THEN hr_walk_advance(RemoveAt(peaks, k), k + 1, m2,
                     [acc EXCEPT !.steps = Append(@, step("removed"))])
        ELSE IF TooLong(m2, interval)
        THEN hr_walk_advance(peaks, k + 1, m2,
                     [acc EXCEPT !.steps = Append(@, step("long"))])
        ELSE IF interval < MinInterval \/ interval > MaxInterval
        THEN hr_walk_advance(peaks, k + 1, m2,
                     [acc EXCEPT !.steps = Append(@, step("bounds"))])
        ELSE hr_walk_advance(peaks, k + 1, m2,
                     [hr |-> Append(acc.hr, Rate(interval)),
                      ts |-> Append(acc.ts, peaks[k]),
                      steps |-> Append(acc.steps, step("rate"))])

\* The while loop of _calculate_heart_rate over new_r_peaks_idx; k is the
\* position of the later peak of the interval (Python's i, plus one).  Each
\* iteration is recorded as a step: the interval's two peaks, what the loop
\* decided, and the number of rates emitted before and after it.
RECURSIVE hr_walk(_, _, _, _)
hr_walk(peaks, k, m2, acc) ==
    IF k > Len(peaks) THEN acc
    ELSE
    LET interval == peaks[k] - peaks[k - 1]
        step(v) == [from |-> peaks[k - 1], to |-> peaks[k], verdict |-> v,
                    before |-> Len(acc.hr),
                    after |-> Len(acc.hr) + (IF v = "rate" THEN 1 ELSE 0)]
    IN  IF TooShort(m2, interval)
        THEN hr_walk(RemoveAt(peaks, k), k, m2,
                     [acc EXCEPT !.steps = Append(@, step("removed"))])
        ELSE IF TooLong(m2, interval)
        THEN hr_walk(peaks, k + 1, m2,
                     [acc EXCEPT !.steps = Append(@, step("long"))])
        ELSE IF interval < MinInterval \/ interval > MaxInterval
        THEN hr_walk(peaks, k + 1, m2,
                     [acc EXCEPT !.steps = Append(@, step("bounds"))])
        ELSE hr_walk(peaks, k + 1, m2,
                     [hr |-> Append(acc.hr, Rate(interval)),
                      ts |-> Append(acc.ts, peaks[k]),
                      steps |-> Append(acc.steps, step("rate"))])

\* A variant of _calculate_heart_rate whose early returns leave the snapshot
\* as it was.
calculate_heart_rate_stale(hist, prev) ==
    LET none == [lists |-> FALSE, hr |-> <<>>, ts |-> <<>>, steps |-> <<>>,
                 m2 |-> None, previous |-> prev]
        fresh == IF Len(prev) > 0
                 THEN SelectSeq(hist, LAMBDA p : p > prev[Len(prev)])
                 ELSE hist
        new_r_peaks == IF Len(prev) > 0 THEN <<prev[Len(prev)]>> \o fresh ELSE fresh
        w == hr_walk(new_r_peaks, 2, Median2(Diff(prev)), EmptyWalk)
    IN  IF hist = prev \/ Len(hist) <= 1 \/ Len(fresh) = 0 THEN none
        ELSE [lists |-> TRUE, hr |-> w.hr, ts |-> w.ts, steps |-> w.steps,
              m2 |-> Median2(Diff(prev)), previous |-> hist]

\* ECGAnalyzer._calculate_heart_rate: what it returns (lists |-> FALSE stands
\* for (None, None)), the snapshot it leaves, and the walk it made.
calculate_heart_rate(hist, prev) ==
    LET none(p) == [lists |-> FALSE, hr |-> <<>>, ts |-> <<>>, steps |-> <<>>,
                    m2 |-> None, previous |-> p]
    IN  IF hist = prev THEN none(prev)
        ELSE IF Len(hist) <= 1 THEN none(hist)
        ELSE
        LET fresh == IF Len(prev) > 0
                     THEN SelectSeq(hist, LAMBDA p : p > prev[Len(prev)])
                     ELSE hist
        IN  IF Len(fresh) = 0 THEN none(hist)
            ELSE
            LET new_r_peaks == IF Len(prev) > 0
                               THEN <<prev[Len(prev)]>> \o fresh
                               ELSE fresh
                sd_median2 == Median2(Diff(prev))
                w == hr_walk(new_r_peaks, 2, sd_median2, EmptyWalk)
            IN  [lists |-> TRUE, hr |-> w.hr, ts |-> w.ts, steps |-> w.steps,
                 m2 |-> sd_median2, previous |-> hist]

RECURSIVE TrimHistory(_)
TrimHistory(hist) ==
    IF Len(hist) > 1 /\ hist[Len(hist)] - hist[1] > HistorySize
    THEN TrimHistory(Tail(hist))
    ELSE hist

\* ECGAnalyzer._update_peak_history: append the new peaks that are at least
\* MinDistance from every peak already in the history, then trim.
update_peak_history(hist, new_peaks) ==
    LET unique(p) == \A i \in 1..Len(hist) : Abs(p - hist[i]) >= MinDistance
    IN  TrimHistory(hist \o SelectSeq(new_peaks, unique))

\* time_data.any(): some timestamp is not zero.
AnyNonZero(seq) == {i \in 1..Len(seq) : seq[i] # 0} # {}

\* The chunk after "Handle initial negative time values": np.argmax of an
\* all-False mask is 0, so a chunk without a positive time is kept whole.
DropNegativeStart(chunk) ==
    IF chunk[1] < 0
    THEN LET pos == {i \in 1..Len(chunk) : chunk[i] > 0}
         IN  IF pos = {} THEN chunk
             ELSE SubSeq(chunk, CHOOSE i \in pos : \A j \in pos : i <= j, Len(chunk))
    ELSE chunk

\* np.roll by -len(chunk), then the last len(chunk) entries are overwritten.
RollIn(window, chunk) == SubSeq(window, Len(chunk) + 1, Len(window)) \o chunk

\* Whether the chunk (after the negative-time cut) starts more than the
\* threshold away from the window's last timestamp.
Discontinuity(window, chunk) ==
    Abs(chunk[1] - window[Len(window)]) > TIME_GAP_THRESHOLD

\* A variant of the discontinuity handling that never resets.
reinit_on_gap_never(window, hist, prev, chunk) ==
    [time_window |-> window, history |-> hist, previous |-> prev]

\* update_hr, "Detect discontinuity": _reinit_history on a gap.
reinit_on_gap(window, hist, prev, chunk) ==
    IF Discontinuity(window, chunk)
    THEN [time_window |-> InitialTimeWindow, history |-> <<>>, previous |-> <<>>]
    ELSE [time_window |-> window, history |-> hist, previous |-> prev]

\* The window indices (0-based, as in the code) _edge_removal lets through.
CentralIndices == {j \in 0..(WindowLen - 1) : j > EdgeSamples /\ j < WindowLen - EdgeSamples}

\* What the three detectors may agree on for a window: up to MaxPeaksPerCall
\* central indices whose timestamps are positive and on the peak grid, in
\* increasing index order (np.intersect1d sorts).
Candidates(window) ==
    {j \in CentralIndices : window[j + 1] > 0 /\ window[j + 1] % PeakGrid = 0}

RECURSIVE SetToSortedSeq(_)
SetToSortedSeq(S) ==
    IF S = {} THEN <<>>
    ELSE LET x == CHOOSE y \in S : \A z \in S : y <= z
         IN  <<x>> \o SetToSortedSeq(S \ {x})

Detections(window) ==
    {D \in SUBSET Candidates(window) : Cardinality(D) <= MaxPeaksPerCall}

NoCall == [called |-> FALSE, gap |-> FALSE, zero |-> FALSE, outcome |-> "none",
           histAtProcess |-> <<>>, prevAtProcess |-> <<>>, peaks |-> <<>>,
           lists |-> FALSE, hr |-> <<>>, ts |-> <<>>, steps |-> <<>>, m2 |-> None]

InitHR ==
    /\ time_window = InitialTimeWindow
    /\ history = <<>>
    /\ previous = <<>>
    /\ hrOut = NoCall
    /\ sinceGap = {}
    /\ nCalls = 0

\* update_hr on a chunk of n samples starting off units after the window's
\* last timestamp; zero: every sample of the chunk's signal is 0.
\* First the call returns early, without touching the analyzer.
UpdateHR_Rejected(off, n, zero) ==
    LET chunk == [i \in 1..n |-> time_window[WindowLen] + off + i - 1]
    IN  /\ nCalls < MaxCalls
        /\ ~AnyNonZero(chunk) \/ zero
        /\ hrOut' = [NoCall EXCEPT !.called = TRUE,
                                   !.gap = Discontinuity(time_window, DropNegativeStart(chunk)),
                                   !.zero = zero,
                                   !.outcome = "return",
                                   !.histAtProcess = history,
                                   !.prevAtProcess = previous]
        /\ sinceGap' = IF Discontinuity(time_window, DropNegativeStart(chunk))
                       THEN {} ELSE sinceGap
        /\ nCalls' = nCalls + 1
        /\ UNCHANGED <<time_window, history, previous>>
        /\ UNCHANGED <<bufVars, codecVars, orchVars, unitVars>>

\* The chunk does not fit the window: the window assignment raises after the
\* discontinuity handling.
UpdateHR_Raises(off, n) ==
    LET chunk == DropNegativeStart([i \in 1..n |-> time_window[WindowLen] + off + i - 1])
        r == reinit_on_gap(time_window, history, previous, chunk)
    IN  /\ nCalls < MaxCalls
        /\ AnyNonZero(chunk)
        /\ Len(chunk) > WindowLen
        /\ time_window' = r.time_window
        /\ history' = r.history
        /\ previous' = r.previous
        /\ hrOut' = [NoCall EXCEPT !.called = TRUE,
                                   !.gap = Discontinuity(time_window, chunk),
                                   !.outcome = "raise",
                                   !.histAtProcess = r.history,
                                   !.prevAtProcess = r.previous]
        /\ sinceGap' = IF Discontinuity(time_window, chunk) THEN {} ELSE sinceGap
        /\ nCalls' = nCalls + 1
        /\ UNCHANGED <<bufVars, codecVars, orchVars, unitVars>>

\* The chunk is processed: discontinuity handling, window update, detection
\* (the detectors agreeing on at most `most` peaks), history update,
\* heart-rate extraction.
update_hr(off, n, most) ==
    LET chunk == DropNegativeStart([i \in 1..n |-> time_window[WindowLen] + off + i - 1])
        r == reinit_on_gap(time_window, history, previous, chunk)
        window == RollIn(r.time_window, chunk)
    IN  /\ AnyNonZero(chunk)
        /\ Len(chunk) <= WindowLen
        /\ \E D \in {d \in Detections(window) : Cardinality(d) <= most} :
             LET new_peaks == [i \in 1..Cardinality(D) |-> window[SetToSortedSeq(D)[i] + 1]]
                 hist == update_peak_history(r.history, new_peaks)
                 c == calculate_heart_rate(hist, r.previous)
             IN  /\ time_window' = window
                 /\ history' = hist
                 /\ previous' = c.previous
                 /\ hrOut' = [called |-> TRUE,
                              gap |-> Discontinuity(time_window, chunk),
                              zero |-> FALSE,
                              outcome |-> "return",
                              histAtProcess |-> r.history,
                              prevAtProcess |-> r.previous,
                              peaks |-> new_peaks,
                              lists |-> c.lists, hr |-> c.hr, ts |-> c.ts,
                              steps |-> c.steps, m2 |-> c.m2]
                 /\ sinceGap' = (IF Discontinuity(time_window, chunk) THEN {} ELSE sinceGap)
                                    \cup {new_peaks[i] : i \in 1..Len(new_peaks)}
        /\ nCalls' = nCalls + 1
        /\ UNCHANGED <<bufVars, codecVars, orchVars, unitVars>>

UpdateHR(off, n) == nCalls < MaxCalls /\ update_hr(off, n, MaxPeaksPerCall)

NextHR ==
    \/ \E off \in GapOffsets : \E n \in ChunkLens : UpdateHR(off, n)
    \/ \E off \in GapOffsets : \E n \in ChunkLens : UpdateHR_Rejected(off, n, TRUE)
    \/ \E off \in GapOffsets : UpdateHR_Raises(off, WindowLen + 1)

\* A longer uninterrupted stream on which the detectors confirm at most
\* MaxStreamPeaks peaks per window.
MaxStreamCalls == 5
MaxStreamPeaks == 1

StreamHR(n) == nCalls < MaxStreamCalls /\ update_hr(1, n, MaxStreamPeaks)

NextStream == \E n \in ChunkLens : StreamHR(n)

(***************************************************************************)
(*                       CONNECTION ORCHESTRATOR                           *)
(* The asyncio event loop runs one task at a time, from the head of its    *)
(* FIFO queue of ready tasks, up to the task's next suspension.  A task    *)
(* that waits (for I/O, a timer, the semaphore or an event) is appended to *)
(* the queue when what it waits for happens.  Time is counted in ticks of  *)
(* 0.1 s and passes only while no task is ready.                           *)
(***************************************************************************)
NumSensors == 2             \* sensors managed by the orchestrator
MaxK == 2                   \* largest parallel_connection_authorized
MaxDrops == 2               \* link losses per run
MaxStops == 2               \* calls of stop() per run

PollTicks == 1              \* asyncio.sleep(0.1) of the notification loop
RetryTicks == 10            \* asyncio.sleep(1) of manage_connection
DummyTicks == 1             \* asyncio.sleep(0.1) of NervousVirtual.connect

Sensors == 1..NumSensors
NotifTask == 0              \* manage_all_notifications
StopTask == NumSensors + 1  \* stop() and its manage_all_disconnections

\* The first sensor is a Bluetooth one; the others are Bluetooth or virtual.
KindConfigs ==
    {k \in [Sensors -> {"ble", "virtual"}] : k[1] = "ble"}

NoCallbacks == [conn |-> 0, disc |-> 0, fail |-> 0]

\* A sensor and its manage_connection task.
\*   mpc  where manage_connection stands: "loop", "acquire", "connect",
\*        "sleep", "errsleep", "done"
\*   cpc  where connect() stands: "none", "scan" (the scan and, if the device
\*        is found, the handshake of the client), "timesync",
\*        "abort", "connected", "closing"; for a virtual sensor "v_dummy",
\*        "v_wait_start", "v_running"
\*   link client.is_connected of the bound client (_is_connected if virtual)
\*   cb   the callbacks made so far by the connect() call that is running
\*   reported  the sensor's last callback to the manager was on_sensor_connect
\*   held permits acquired by this sensor's attempts and not yet released
InitSensor ==
    [mpc |-> "loop", cpc |-> "none", link |-> FALSE, established |-> FALSE,
     disc_event |-> FALSE, v_start |-> FALSE, v_stop |-> FALSE, v_disc |-> FALSE,
     cb |-> NoCallbacks, reported |-> FALSE, held |-> 0,
     timer |-> 0]

InitManager(k, kinds) ==
    [K |-> k, kind |-> kinds,
     value |-> k, waiters |-> <<>>,          \* asyncio.Semaphore(K)
     all_connected |-> FALSE,                \* _all_connected
     stop_event |-> FALSE,                   \* _stop_event
     notifications_active |-> FALSE,         \* _notifications_active
     npc |-> "init", ntimer |-> 0,           \* manage_all_notifications
     bpc |-> "wait",                         \* manage_battery_level
     spc |-> "idle"]                         \* stop()

\* No connect() call has ended in the last step.
NoCall_connect == [sensor |-> 0, how |-> "none", cb |-> NoCallbacks]

\* What an observer of the callbacks and fan-outs has counted.
InitObserver ==
    [nStart |-> [s \in Sensors |-> 0],       \* start_notifications invocations
     nStop |-> [s \in Sensors |-> 0],        \* stop_notifications invocations
     startSeen |-> FALSE,                    \* a start fan-out has happened
     startReported |-> {},                   \* sensors reported connected at the last one
     pendingDrop |-> FALSE,                  \* a disconnect seen while polling, no stop yet
     dropAge |-> 0,                          \* ticks since that disconnect
     drops |-> 0,                            \* link losses so far
     stops |-> 0,                            \* calls of stop() so far
     stopSettled |-> FALSE,                  \* the first stop() found all connected, notifications on
     atRest |-> None,                        \* the flags a later stop() found, the system at rest
     stable |-> TRUE,                        \* no attempt has failed, no link was lost
     nConnect |-> [s \in Sensors |-> 0],     \* connect() invocations of the stable run
     nDisconnect |-> [s \in Sensors |-> 0],  \* disconnect() invocations
     last |-> NoCall_connect]                \* the connect() call that has just ended

InitOrch ==
    \E k \in 1..MaxK : \E kinds \in KindConfigs :
        orch = [mgr |-> InitManager(k, kinds),
                sn |-> [s \in Sensors |-> InitSensor],
                obs |-> InitObserver,
                ready |-> <<NotifTask>> \o [i \in 1..NumSensors |-> i]]

InReady(o, t) == \E i \in 1..Len(o.ready) : o.ready[i] = t
Enqueue(o, t) == IF InReady(o, t) THEN o ELSE [o EXCEPT !.ready = Append(@, t)]
Running(o, t) == o.ready # <<>> /\ Head(o.ready) = t
\* The state a step starts from: the observer forgets the call that ended in
\* the step before.  Pop is the start of a step of the task at the head.
Env(o) == [o EXCEPT !.obs.last = NoCall_connect]
Pop(o) == [Env(o) EXCEPT !.ready = Tail(@)]

\* A connection attempt fails or a link is lost: the run is no longer the
\* stable one, and the observer of the stable run drops its count.
Unstable(o) ==
    [o EXCEPT !.obs.stable = FALSE, !.obs.nConnect = [s \in Sensors |-> 0]]

\* NervousSensor.is_connected / NervousVirtual.is_connected
is_connected(o, s) == o.sn[s].link

\* A variant of Semaphore.locked that never reports the semaphore locked.
locked_never(value, waiters) == FALSE

\* asyncio.Semaphore.locked: no permit left, or somebody is waiting.  A waiter
\* stays in the queue until it runs again, also after its wake-up.
locked(value, waiters) == value = 0 \/ waiters # <<>>

\* asyncio.Semaphore._wake_up_next: hand a permit to the first waiter whose
\* future is not done yet.
wake_up_next(o) ==
    LET W == o.mgr.waiters
        pending == {i \in 1..Len(W) : ~W[i].woken}
    IN  IF pending = {} THEN o
        ELSE LET i == CHOOSE j \in pending : \A k \in pending : j <= k
                 s == W[i].sensor
             IN  Enqueue([o EXCEPT !.mgr.value = @ - 1,
                                   !.mgr.waiters[i].woken = TRUE,
                                   !.sn[s].held = @ + 1], s)

\* A variant of Semaphore.release that gives the permit back without waking
\* a waiter.
release_silent(o, s) == [o EXCEPT !.mgr.value = @ + 1, !.sn[s].held = @ - 1]

\* asyncio.Semaphore.release, called for an attempt of sensor s.
release(o, s) ==
    wake_up_next([o EXCEPT !.mgr.value = @ + 1, !.sn[s].held = @ - 1])

\* asyncio.Event.set on _all_connected: the waiting notification loop is made
\* ready once.
set_all_connected(o) ==
    IF o.mgr.all_connected THEN o
    ELSE LET o1 == [o EXCEPT !.mgr.all_connected = TRUE]
         IN  IF o.mgr.npc = "wait_all"
             THEN Enqueue([o1 EXCEPT !.mgr.npc = "woken"], NotifTask)
             ELSE o1

\* ConnectionManager.on_sensor_fail_to_connect
on_sensor_fail_to_connect(o, s) ==
    release([o EXCEPT !.sn[s].cb.fail = @ + 1], s)

\* ConnectionManager.on_sensor_connect
on_sensor_connect(o, s) ==
    LET o1 == release([o EXCEPT !.sn[s].cb.conn = @ + 1,
                                !.sn[s].reported = TRUE], s)
    IN  IF \A t \in Sensors : is_connected(o1, t)
        THEN set_all_connected(o1)
        ELSE o1

\* ConnectionManager.on_sensor_disconnect.  The observer notes a disconnect
\* that happens while the notification loop is polling with notifications on.
on_sensor_disconnect(o, s) ==
    LET polling == o.mgr.notifications_active /\ o.mgr.npc = "poll"
    IN  [o EXCEPT !.sn[s].cb.disc = @ + 1,
                  !.sn[s].reported = FALSE,
                  !.mgr.all_connected = FALSE,
                  !.obs.pendingDrop = @ \/ polling,
                  !.obs.dropAge = IF polling /\ ~o.obs.pendingDrop THEN 0 ELSE @]

\* connect() returns (or has handled its error) and manage_connection goes
\* to its asyncio.sleep(1).
EndConnect(o, s, how) ==
    [o EXCEPT !.sn[s].cpc = "none", !.sn[s].cb = NoCallbacks,
              !.sn[s].mpc = "sleep", !.sn[s].timer = RetryTicks,
              !.obs.last = [sensor |-> s, how |-> how, cb |-> o.sn[s].cb]]

\* A variant of the handler of connect() that always reports a disconnection.
except_callback_disconnect(o, s) == on_sensor_disconnect(o, s)

\* NervousSensor.connect, "except Exception": which callback the failure gets.
except_callback(o, s) ==
    IF o.sn[s].established
    THEN on_sensor_disconnect(o, s)
    ELSE on_sensor_fail_to_connect(o, s)

\* NervousVirtual.connect from the test of its outer loop: leave on a
\* disconnect request, else wait for the start event.
VirtualOuter(o, s) ==
    IF o.sn[s].v_disc
    THEN EndConnect(on_sensor_disconnect([o EXCEPT !.sn[s].v_disc = FALSE], s),
                    s, "virtual")
    ELSE [o EXCEPT !.sn[s].cpc = "v_wait_start"]

\* ... from the test of its inner loop, the start event just cleared.
VirtualInner(o, s) ==
    IF o.sn[s].v_stop
    THEN VirtualOuter([o EXCEPT !.sn[s].v_stop = FALSE], s)
    ELSE [o EXCEPT !.sn[s].cpc = "v_running"]

\* ... from the test of its outer loop when the start event may be set:
\* Event.wait returns at once if it is.
VirtualLoop(o, s) ==
    IF ~o.sn[s].v_disc /\ o.sn[s].v_start
    THEN VirtualInner([o EXCEPT !.sn[s].v_start = FALSE], s)
    ELSE VirtualOuter(o, s)

\* sensor.connect() up to its first suspension: the scan of a Bluetooth
\* sensor, the dummy wait of a virtual one.
BeginConnect(o, s) ==
    LET o1 == [o EXCEPT !.sn[s].mpc = "connect", !.sn[s].cb = NoCallbacks,
                        !.sn[s].established = FALSE,
                        !.obs.nConnect[s] = IF o.obs.stable THEN @ + 1 ELSE @]
    IN  IF o.mgr.kind[s] = "ble"
        THEN [o1 EXCEPT !.sn[s].cpc = "scan", !.sn[s].disc_event = FALSE]
        ELSE [o1 EXCEPT !.sn[s].cpc = "v_dummy", !.sn[s].link = TRUE,
                        !.sn[s].timer = DummyTicks]

\* Semaphore.acquire: take a permit if the semaphore is not locked, else
\* queue up.
acquire(o, s) ==
    IF ~locked(o.mgr.value, o.mgr.waiters)
    THEN BeginConnect([o EXCEPT !.mgr.value = @ - 1, !.sn[s].held = @ + 1], s)
    ELSE [o EXCEPT !.mgr.waiters = Append(@, [sensor |-> s, woken |-> FALSE]),
                   !.sn[s].mpc = "acquire"]

\* manage_connection from the test of its while loop.
ConnectionLoop(o, s) ==
    IF o.mgr.stop_event THEN [o EXCEPT !.sn[s].mpc = "done"]
    ELSE IF ~is_connected(o, s) THEN acquire(o, s)
    ELSE [o EXCEPT !.sn[s].mpc = "sleep", !.sn[s].timer = RetryTicks]

\* The disconnection event is set: report, then close the client.
LinkEnded(o, s) ==
    [on_sensor_disconnect(o, s) EXCEPT !.sn[s].cpc = "closing"]

OrchOnly == UNCHANGED <<bufVars, codecVars, hrVars, unitVars>>

\* ---- steps of a manage_connection task ----

\* The task starts, or its sleep is over.
ManageConnection(s) ==
    /\ Running(orch, s)
    /\ orch.sn[s].mpc \in {"loop", "sleep", "errsleep"}
    /\ orch' = ConnectionLoop(Pop(orch), s)
    /\ OrchOnly

\* The task got its permit from a release: acquire returns.
Acquired(s) ==
    /\ Running(orch, s)
    /\ orch.sn[s].mpc = "acquire"
    /\ LET W == orch.mgr.waiters
           o1 == [Pop(orch) EXCEPT
                     !.mgr.waiters = SelectSeq(W, LAMBDA w : w.sensor # s)]
           o2 == IF o1.mgr.value > 0 THEN wake_up_next(o1) ELSE o1
       IN  orch' = BeginConnect(o2, s)
    /\ OrchOnly

\* find_device_by_name raises: connect() lets it through to the handler of
\* manage_connection.
ScanRaises(s) ==
    /\ Running(orch, s)
    /\ orch.sn[s].cpc = "scan"
    /\ LET o1 == Unstable(Pop(orch))
           o2 == IF locked(o1.mgr.value, o1.mgr.waiters) THEN release(o1, s) ELSE o1
       IN  orch' = [o2 EXCEPT !.sn[s].cpc = "none",
                              !.sn[s].mpc = "errsleep", !.sn[s].timer = RetryTicks,
                              !.obs.last = [sensor |-> s, how |-> "scan_error",
                                            cb |-> o2.sn[s].cb]]
    /\ OrchOnly

\* find_device_by_name returns None.
ScanNotFound(s) ==
    /\ Running(orch, s)
    /\ orch.sn[s].cpc = "scan"
    /\ orch' = EndConnect(on_sensor_fail_to_connect(Unstable(Pop(orch)), s),
                          s, "not_found")
    /\ OrchOnly

\* The device is found and BleakClient.__aenter__ raises.
HandshakeFails(s) ==
    /\ Running(orch, s)
    /\ orch.sn[s].cpc = "scan"
    /\ orch' = EndConnect(except_callback(Unstable(Pop(orch)), s),
                          s, "handshake_failed")
    /\ OrchOnly

\* The device is found and __aenter__ returns: the client is bound and
\* connected; the time-sync write starts.
HandshakeOk(s) ==
    /\ Running(orch, s)
    /\ orch.sn[s].cpc = "scan"
    /\ orch' = [Pop(orch) EXCEPT !.sn[s].cpc = "timesync", !.sn[s].link = TRUE]
    /\ OrchOnly

\* write_gatt_char raises: __aexit__ closes the client first.
TimeSyncFails(s) ==
    /\ Running(orch, s)
    /\ orch.sn[s].cpc = "timesync"
    /\ orch' = [Unstable(Pop(orch)) EXCEPT !.sn[s].cpc = "abort"]
    /\ OrchOnly

\* The client is closed after the failed write (whether or not closing it
\* raised too): the handler reports.
AbortDone(s) ==
    /\ Running(orch, s)
    /\ orch.sn[s].cpc = "abort"
    /\ orch' = EndConnect(except_callback([Pop(orch) EXCEPT !.sn[s].link = FALSE], s),
                          s, "timesync_failed")
    /\ OrchOnly

\* write_gatt_char returns: the connection is established; wait for the
\* disconnection event, which may be set already.
TimeSyncOk(s) ==
    /\ Running(orch, s)
    /\ orch.sn[s].cpc = "timesync"
    /\ LET o1 == [on_sensor_connect(Pop(orch), s) EXCEPT !.sn[s].established = TRUE]
       IN  orch' = IF o1.sn[s].disc_event
                   THEN LinkEnded(o1, s)
                   ELSE [o1 EXCEPT !.sn[s].cpc = "connected"]
    /\ OrchOnly

\* disconnection_event.wait() returns.
Disconnected(s) ==
    /\ Running(orch, s)
    /\ orch.sn[s].cpc = "connected"
    /\ orch' = LinkEnded(Pop(orch), s)
    /\ OrchOnly

\* __aexit__ returns: self._client = None.
CloseOk(s) ==
    /\ Running(orch, s)
    /\ orch.sn[s].cpc = "closing"
    /\ orch' = EndConnect([Pop(orch) EXCEPT !.sn[s].link = FALSE], s, "link_ended")
    /\ OrchOnly

\* __aexit__ raises: the handler runs with the connection established.
CloseRaises(s) ==
    /\ Running(orch, s)
    /\ orch.sn[s].cpc = "closing"
    /\ orch' = EndConnect(except_callback([Unstable(Pop(orch)) EXCEPT
                                               !.sn[s].link = FALSE], s),
                          s, "close_error")
    /\ OrchOnly

\* The dummy wait of a virtual sensor is over.
VirtualConnected(s) ==
    /\ Running(orch, s)
    /\ orch.sn[s].cpc = "v_dummy"
    /\ orch' = VirtualLoop(on_sensor_connect(Pop(orch), s), s)
    /\ OrchOnly

\* _start_event.wait() returns.
VirtualStarted(s) ==
    /\ Running(orch, s)
    /\ orch.sn[s].cpc = "v_wait_start"
    /\ orch' = VirtualInner([Pop(orch) EXCEPT !.sn[s].v_start = FALSE], s)
    /\ OrchOnly

\* _stop_event.wait() returns: data are processed and the inner loop ends.
VirtualStopped(s) ==
    /\ Running(orch, s)
    /\ orch.sn[s].cpc = "v_running"
    /\ orch' = VirtualLoop([Pop(orch) EXCEPT !.sn[s].v_stop = FALSE], s)
    /\ OrchOnly

\* ---- the notification loop (manage_all_notifications) ----

\* start_all_notifications up to its wait for the fan-out: start_notifications
\* is called on every sensor.
StartFanout(o) ==
    [o EXCEPT !.mgr.npc = "starting",
              !.obs.nStart = [s \in Sensors |-> @[s] + 1],
              !.obs.startSeen = TRUE,
              !.obs.startReported = {s \in Sensors : o.sn[s].reported}]

\* stop_all_notifications up to its wait for the fan-out.
StopFanout(o) ==
    [o EXCEPT !.mgr.npc = "stopping",
              !.obs.nStop = [s \in Sensors |-> @[s] + 1],
              !.obs.pendingDrop = FALSE,
              !.obs.dropAge = 0]

\* A variant of the loop that starts the notifications without waiting for
\* the all-connected event.
NotificationLoop_eager(o) ==
    IF o.mgr.stop_event THEN [o EXCEPT !.mgr.npc = "done"] ELSE StartFanout(o)

\* The loop from the test of its while: Event.wait returns at once if the
\* event is set.
NotificationLoop(o) ==
    IF o.mgr.stop_event THEN [o EXCEPT !.mgr.npc = "done"]
    ELSE IF o.mgr.all_connected THEN StartFanout(o)
    ELSE [o EXCEPT !.mgr.npc = "wait_all"]

\* A variant of the polling loop that keeps sleeping whatever the event says.
PollLoop_blind(o) == [o EXCEPT !.mgr.npc = "poll", !.mgr.ntimer = PollTicks]

\* "while self._all_connected.is_set(): await asyncio.sleep(0.1)", then the
\* stop fan-out.
PollLoop(o) ==
    IF o.mgr.all_connected
    THEN [o EXCEPT !.mgr.npc = "poll", !.mgr.ntimer = PollTicks]
    ELSE StopFanout(o)

\* The task starts.
NotificationsBegin ==
    /\ Running(orch, NotifTask)
    /\ orch.mgr.npc = "init"
    /\ orch' = NotificationLoop(Pop(orch))
    /\ OrchOnly

\* _all_connected.wait() returns, whatever the event is by now.
NotificationsAllConnected ==
    /\ Running(orch, NotifTask)
    /\ orch.mgr.npc = "woken"
    /\ orch' = StartFanout(Pop(orch))
    /\ OrchOnly

\* The start fan-out is over.
NotificationsStarted ==
    /\ Running(orch, NotifTask)
    /\ orch.mgr.npc = "starting"
    /\ orch' = PollLoop([Pop(orch) EXCEPT !.mgr.notifications_active = TRUE])
    /\ OrchOnly

\* The poll sleep is over.
NotificationsPoll ==
    /\ Running(orch, NotifTask)
    /\ orch.mgr.npc = "poll"
    /\ orch' = PollLoop(Pop(orch))
    /\ OrchOnly

\* The stop fan-out is over.
NotificationsStopped ==
    /\ Running(orch, NotifTask)
    /\ orch.mgr.npc = "stopping"
    /\ orch' = NotificationLoop([Pop(orch) EXCEPT !.mgr.notifications_active = FALSE])
    /\ OrchOnly

\* ---- effects of the fan-outs on the sensors ----

\* NervousVirtual.start_notifications on every virtual sensor.
StartVirtuals(o) ==
    LET V == {s \in Sensors : o.mgr.kind[s] = "virtual"}
        o1 == [o EXCEPT !.sn = [s \in Sensors |->
                   IF s \in V THEN [@[s] EXCEPT !.v_start = TRUE] ELSE @[s]]]
        wake == {s \in V : o.sn[s].cpc = "v_wait_start" /\ ~o.sn[s].v_start}
    IN  [o1 EXCEPT !.ready = @ \o SetToSortedSeq(wake \ {t \in wake : InReady(o, t)})]

\* NervousVirtual.stop_notifications on every virtual sensor.
StopVirtuals(o) ==
    LET V == {s \in Sensors : o.mgr.kind[s] = "virtual"}
        o1 == [o EXCEPT !.sn = [s \in Sensors |->
                   IF s \in V THEN [@[s] EXCEPT !.v_stop = TRUE] ELSE @[s]]]
        wake == {s \in V : o.sn[s].cpc = "v_running" /\ ~o.sn[s].v_stop}
    IN  [o1 EXCEPT !.ready = @ \o SetToSortedSeq(wake \ {t \in wake : InReady(o, t)})]

\* disconnect() on every sensor: a connected Bluetooth client is disconnected,
\* which sets its disconnection event; a virtual sensor drops its flag and
\* sets its disconnect event.
DisconnectAll(o) ==
    LET up == {s \in Sensors : o.mgr.kind[s] = "ble" /\ is_connected(o, s)}
        o1 == [o EXCEPT !.sn = [s \in Sensors |->
                   IF o.mgr.kind[s] = "virtual"
                   THEN [@[s] EXCEPT !.link = FALSE, !.v_disc = TRUE]
                   ELSE IF s \in up
                   THEN [@[s] EXCEPT !.link = FALSE, !.disc_event = TRUE]
                   ELSE @[s]]]
        wake == {s \in up : o.sn[s].cpc = "connected" /\ ~InReady(o, s)}
    IN  [o1 EXCEPT !.ready = @ \o SetToSortedSeq(wake)]

\* ---- stop() ----

\* Every sensor is in its established connection and the notification loop
\* polls.
Settled(o) ==
    /\ \A s \in Sensors : o.sn[s].cpc \in {"connected", "v_running"}
    /\ o.mgr.npc = "poll"

IOStates == {"scan", "timesync", "abort", "closing"}
Sleeping(o, s) == o.sn[s].mpc \in {"sleep", "errsleep"} \/ o.sn[s].cpc = "v_dummy"

\* What stop() acts on: each sensor's connection state and its start, stop
\* and disconnect events, the permit count, the stop event and the
\* notifications flag.
Flags(o) ==
    [sn |-> [s \in Sensors |->
                [link |-> o.sn[s].link, v_start |-> o.sn[s].v_start,
                 v_stop |-> o.sn[s].v_stop, v_disc |-> o.sn[s].v_disc]],
     value |-> o.mgr.value,
     stop_event |-> o.mgr.stop_event,
     notifications_active |-> o.mgr.notifications_active]

\* No task is ready, no I/O or fan-out is pending and no task sleeps:
\* nothing happens until somebody calls stop().
AtRest(o) ==
    /\ o.ready = <<>>
    /\ \A s \in Sensors : o.sn[s].cpc \notin IOStates /\ ~Sleeping(o, s)
    /\ o.mgr.npc \in {"wait_all", "done"}
    /\ o.mgr.spc \in {"idle", "done"}
    /\ o.mgr.bpc = "done" \/ ~o.mgr.stop_event

\* stop() is called, for the first time or after an earlier stop() has
\* returned: the stop event is set and manage_all_disconnections is scheduled.
Stop ==
    /\ orch.mgr.spc \in {"idle", "done"}
    /\ orch.obs.stops < MaxStops
    /\ orch' = Enqueue([Env(orch) EXCEPT
                    !.mgr.stop_event = TRUE, !.mgr.spc = "begin",
                    !.obs.stops = @ + 1,
                    !.obs.stopSettled =
                        IF orch.obs.stops = 0
                        THEN Settled(orch) /\ orch.mgr.notifications_active
                        ELSE @,
                    !.obs.atRest =
                        IF orch.obs.stops > 0 /\ AtRest(orch)
                        THEN Some(Flags(orch))
                        ELSE @],
                       StopTask)
    /\ OrchOnly

\* manage_battery_level: its wait for the stop event returns once the event
\* is set, the levels are logged and the while loop ends.  (Its 120 s
\* timeout only logs the levels and waits again.)
BatteryLevel ==
    /\ orch.mgr.bpc = "wait"
    /\ orch.mgr.stop_event
    /\ orch' = [Env(orch) EXCEPT !.mgr.bpc = "done"]
    /\ OrchOnly

\* manage_all_disconnections starts: stop_notifications is called on every
\* sensor.
StopBegin ==
    /\ Running(orch, StopTask)
    /\ orch.mgr.spc = "begin"
    /\ orch' = [Pop(orch) EXCEPT !.mgr.spc = "stopping",
                                 !.obs.nStop = [s \in Sensors |-> @[s] + 1]]
    /\ OrchOnly

\* Its stop fan-out is over: disconnect() is called on every sensor.
StopDisconnects ==
    /\ Running(orch, StopTask)
    /\ orch.mgr.spc = "stopping"
    /\ orch' = [Pop(orch) EXCEPT !.mgr.notifications_active = FALSE,
                                 !.mgr.spc = "disconnecting",
                                 !.obs.nDisconnect = [s \in Sensors |-> @[s] + 1]]
    /\ OrchOnly

\* Its disconnect fan-out is over.
StopEnd ==
    /\ Running(orch, StopTask)
    /\ orch.mgr.spc = "disconnecting"
    /\ orch' = [Pop(orch) EXCEPT !.mgr.spc = "done"]
    /\ OrchOnly

\* ---- what happens outside the tasks ----


\* The I/O a connect() call waits for completes.
IOComplete(s) ==
    /\ orch.sn[s].cpc \in IOStates
    /\ ~InReady(orch, s)
    /\ orch' = Enqueue(Env(orch), s)
    /\ OrchOnly

\* The link of a connected Bluetooth client is lost: the client is no longer
\* connected and its disconnected callback sets the disconnection event.
LinkDrop(s) ==
    /\ orch.mgr.kind[s] = "ble"
    /\ orch.sn[s].cpc \in {"timesync", "connected"}
    /\ orch.sn[s].link
    /\ orch.obs.drops < MaxDrops
    /\ LET o1 == [Unstable(Env(orch)) EXCEPT
                     !.sn[s].link = FALSE, !.sn[s].disc_event = TRUE,
                     !.obs.drops = @ + 1]
       IN  orch' = IF orch.sn[s].cpc = "connected" THEN Enqueue(o1, s) ELSE o1
    /\ OrchOnly

\* The sub-tasks of the notification loop's fan-out have run.
FanoutComplete ==
    /\ orch.mgr.npc \in {"starting", "stopping"}
    /\ ~InReady(orch, NotifTask)
    /\ orch' = Enqueue(IF orch.mgr.npc = "starting"
                       THEN StartVirtuals(Env(orch)) ELSE StopVirtuals(Env(orch)), NotifTask)
    /\ OrchOnly

\* The sub-tasks of a fan-out of stop() have run.
StopFanoutComplete ==
    /\ orch.mgr.spc \in {"stopping", "disconnecting"}
    /\ ~InReady(orch, StopTask)
    /\ orch' = Enqueue(IF orch.mgr.spc = "stopping"
                       THEN StopVirtuals(Env(orch)) ELSE DisconnectAll(Env(orch)), StopTask)
    /\ OrchOnly

\* ---- time ----

NotifSleeping(o) == o.mgr.npc = "poll"

\* A sleep of a manage_connection task (or of its connect()) is over.
TimerFire(s) ==
    /\ Sleeping(orch, s)
    /\ orch.sn[s].timer = 0
    /\ ~InReady(orch, s)
    /\ orch' = Enqueue(Env(orch), s)
    /\ OrchOnly

\* The poll sleep of the notification loop is over.
PollTimerFire ==
    /\ NotifSleeping(orch)
    /\ orch.mgr.ntimer = 0
    /\ ~InReady(orch, NotifTask)
    /\ orch' = Enqueue(Env(orch), NotifTask)
    /\ OrchOnly

\* 0.1 s passes: no task is ready and no sleep is over.
Tick ==
    /\ orch.ready = <<>>
    /\ \A s \in Sensors : Sleeping(orch, s) => orch.sn[s].timer > 0
    /\ NotifSleeping(orch) => orch.mgr.ntimer > 0
    /\ \/ \E s \in Sensors : Sleeping(orch, s)
       \/ NotifSleeping(orch)
    /\ orch' = [Env(orch) EXCEPT
           !.sn = [s \in Sensors |->
                      IF Sleeping(orch, s) THEN [@[s] EXCEPT !.timer = @ - 1] ELSE @[s]],
           !.mgr.ntimer = IF NotifSleeping(orch) THEN @ - 1 ELSE @,
           !.obs.dropAge = IF orch.obs.pendingDrop THEN Min(@ + 1, PollTicks + 1) ELSE @]
    /\ OrchOnly

NextOrch ==
    \/ \E s \in Sensors : ManageConnection(s)
    \/ \E s \in Sensors : Acquired(s)
    \/ \E s \in Sensors : ScanRaises(s)
    \/ \E s \in Sensors : ScanNotFound(s)
    \/ \E s \in Sensors : HandshakeFails(s)
    \/ \E s \in Sensors : HandshakeOk(s)
    \/ \E s \in Sensors : TimeSyncFails(s)
    \/ \E s \in Sensors : AbortDone(s)
    \/ \E s \in Sensors : TimeSyncOk(s)
    \/ \E s \in Sensors : Disconnected(s)
    \/ \E s \in Sensors : CloseOk(s)
    \/ \E s \in Sensors : CloseRaises(s)
    \/ \E s \in Sensors : VirtualConnected(s)
    \/ \E s \in Sensors : VirtualStarted(s)
    \/ \E s \in Sensors : VirtualStopped(s)
    \/ NotificationsBegin
    \/ NotificationsAllConnected
    \/ NotificationsStarted
    \/ NotificationsPoll
    \/ NotificationsStopped
    \/ \E s \in Sensors : IOComplete(s)
    \/ \E s \in Sensors : LinkDrop(s)
    \/ FanoutComplete
    \/ \E s \in Sensors : TimerFire(s)
    \/ PollTimerFire
    \/ Tick

\* stop() and the steps of its manage_all_disconnections.
NextShutdown ==
    \/ Stop
    \/ StopBegin
    \/ StopDisconnects
    \/ StopEnd
    \/ StopFanoutComplete
    \/ BatteryLevel

\* The steps of a run in which every scan finds its device, every handshake
\* and time-sync write succeeds, closing a client succeeds and no link is
\* lost by itself.
NextCalm ==
    \/ \E s \in Sensors : ManageConnection(s)
    \/ \E s \in Sensors : Acquired(s)
    \/ \E s \in Sensors : HandshakeOk(s)
    \/ \E s \in Sensors : TimeSyncOk(s)
    \/ \E s \in Sensors : Disconnected(s)
    \/ \E s \in Sensors : CloseOk(s)
    \/ \E s \in Sensors : VirtualConnected(s)
    \/ \E s \in Sensors : VirtualStarted(s)
    \/ \E s \in Sensors : VirtualStopped(s)
    \/ NotificationsBegin
    \/ NotificationsAllConnected
    \/ NotificationsStarted
    \/ NotificationsPoll
    \/ NotificationsStopped
    \/ \E s \in Sensors : IOComplete(s)
    \/ FanoutComplete
    \/ \E s \in Sensors : TimerFire(s)
    \/ PollTimerFire
    \/ Tick

\* A step of the task at the head of the ready queue.
TaskStep ==
    \/ \E s \in Sensors :
           \/ ManageConnection(s) \/ Acquired(s)
           \/ HandshakeOk(s) \/ TimeSyncOk(s) \/ Disconnected(s) \/ CloseOk(s)
           \/ VirtualConnected(s) \/ VirtualStarted(s) \/ VirtualStopped(s)
    \/ NotificationsBegin \/ NotificationsAllConnected \/ NotificationsStarted
    \/ NotificationsPoll \/ NotificationsStopped
    \/ StopBegin \/ StopDisconnects \/ StopEnd

\* The event loop runs every ready task, pending I/O completes, fan-outs
\* finish, sleeps end and time goes on.  Nothing obliges a caller to call
\* stop().
EventLoopFairness ==
    /\ WF_vars(TaskStep)
    /\ \A s \in Sensors : WF_vars(IOComplete(s)) /\ WF_vars(TimerFire(s))
    /\ WF_vars(PollTimerFire)
    /\ WF_vars(FanoutComplete)
    /\ WF_vars(StopFanoutComplete)
    /\ WF_vars(BatteryLevel)
    /\ WF_vars(Tick)

\* A step of the task at the head of the ready queue in which an attempt
\* fails.
FailStep ==
    \E s \in Sensors :
        \/ ScanRaises(s) \/ ScanNotFound(s) \/ HandshakeFails(s)
        \/ TimeSyncFails(s) \/ AbortDone(s) \/ CloseRaises(s)

\* Every loop started by start() has exited.
LoopsDone(o) ==
    /\ \A s \in Sensors : o.sn[s].mpc = "done"
    /\ o.mgr.npc = "done"
    /\ o.mgr.bpc = "done"

\* Permits acquired and not yet released, over all sensors.  A permit counts
\* from the moment the semaphore gives it, which for a waiter is the release
\* that wakes it.
RECURSIVE HeldUpTo(_, _)
HeldUpTo(o, n) == IF n = 0 THEN 0 ELSE o.sn[n].held + HeldUpTo(o, n - 1)
InFlight(o) == HeldUpTo(o, NumSensors)


(***************************************************************************)
(*                         PARALLEL FAN-OUT                                *)
(***************************************************************************)
MaxFanouts == 2             \* fan-outs per run

FanOps == {"disconnect", "start_notifications", "stop_notifications"}

\* fan.op      the operation of the fan-out that is running, or "none"
\* fan.task    the sub-task of each sensor: "none", "created", "awaiting" (its
\*             client call), "done", "raised" or "cancelled"
\* fan.link    is_connected of each sensor
\* fan.notifying  the sensor's notifications are on
\* fan.notifications_active  ConnectionManager._notifications_active
\* The sensors are those of the orchestrator (orch.mgr.kind).
InitFan ==
    fan = [op |-> "none", task |-> [s \in Sensors |-> "none"],
           link |-> [s \in Sensors |-> FALSE],
           notifying |-> [s \in Sensors |-> FALSE],
           notifications_active |-> FALSE, n |-> 0]

FanOnly == UNCHANGED <<bufVars, codecVars, hrVars, orchVars, virt, hrs, lk, cb>>

\* What the operation does to its sensor when it completes.
Applied(f, s) ==
    CASE f.op = "disconnect" -> [f EXCEPT !.link[s] = FALSE, !.notifying[s] = FALSE]
      [] f.op = "start_notifications" -> [f EXCEPT !.notifying[s] = TRUE]
      [] f.op = "stop_notifications" -> [f EXCEPT !.notifying[s] = FALSE]

\* _run_parallel, the body of "async with asyncio.TaskGroup()": one sub-task
\* per sensor is created.  The first fan-out finds the sensors connected or
\* not.
RunParallel(op, links) ==
    /\ fan.op = "none" /\ fan.n < MaxFanouts
    /\ fan.n > 0 => links = fan.link
    /\ \A s \in Sensors : orch.mgr.kind[s] = "virtual" => links[s]
    /\ fan' = [fan EXCEPT !.op = op, !.task = [s \in Sensors |-> "created"],
                          !.link = links, !.n = @ + 1]
    /\ FanOnly

\* asyncio.TaskGroup._abort: every sub-task that is not done is cancelled.
abort(f) ==
    [f EXCEPT !.task = [t \in Sensors |->
                           IF @[t] \in {"created", "awaiting"} THEN "cancelled" ELSE @[t]]]

\* A step of the sub-task of sensor s.  The sub-tasks start in the order of
\* their creation, before any awaited client call completes.
\*  - first step: the operation of a virtual sensor sets its event and is
\*    over; disconnect() of a sensor that is not connected returns; start and
\*    stop without a usable client fail with an error they catch; otherwise
\*    the operation awaits its client call;
\*  - the client call completes;
\*  - the client call fails with one of the errors start_notifications and
\*    stop_notifications catch (disconnect() catches none);
\*  - the client call raises another error: the sub-task ends with it and the
\*    TaskGroup aborts.
ChildTask(s) ==
    /\ fan.op # "none"
    /\ \/ /\ fan.task[s] = "created"
          /\ \A t \in Sensors : t < s => fan.task[t] # "created"
          /\ fan' = IF orch.mgr.kind[s] = "virtual"
                    THEN Applied([fan EXCEPT !.task[s] = "done"], s)
                    ELSE IF fan.link[s] THEN [fan EXCEPT !.task[s] = "awaiting"]
                    ELSE [fan EXCEPT !.task[s] = "done"]
       \/ /\ fan.task[s] = "awaiting"
          /\ \A t \in Sensors : fan.task[t] # "created"
          /\ \/ fan' = Applied([fan EXCEPT !.task[s] = "done"], s)
             \/ /\ fan.op # "disconnect"
                /\ fan' = [fan EXCEPT !.task[s] = "done"]
             \/ fan' = abort([fan EXCEPT !.task[s] = "raised"])
    /\ FanOnly

\* _run_parallel returns: every sub-task is over, the error of the group is
\* logged; start_all_notifications and stop_all_notifications then set the
\* flag.
RunParallelDone ==
    /\ fan.op # "none"
    /\ \A s \in Sensors : fan.task[s] \in {"done", "raised", "cancelled"}
    /\ fan' = [fan EXCEPT !.op = "none",
                          !.notifications_active =
                              IF fan.op = "disconnect" THEN @
                              ELSE fan.op = "start_notifications"]
    /\ FanOnly

NextFanout ==
    \/ \E op \in FanOps : \E links \in [Sensors -> BOOLEAN] : RunParallel(op, links)
    \/ \E s \in Sensors : ChildTask(s)
    \/ RunParallelDone

(***************************************************************************)
(*                           VIRTUAL SENSOR                                *)
(***************************************************************************)
UpdateTicks == 2            \* update_time, in ticks of the event loop's clock
MaxProcess == 2             \* _process_data calls counted per activation

Requests == {"start_notifications", "stop_notifications", "disconnect"}

\* virt.pc     where connect() stands: "new" (not called), "dummy" (its
\*             asyncio.sleep), "wait_start" (in _start_event.wait()),
\*             "wait_stop" (in wait_for(_stop_event.wait(), update_time)),
\*             "done" (returned)
\* virt.woken  why the waiting coroutine has been made ready: "no", "event",
\*             "timeout"
\* virt.timer  ticks left of the running update period
\* virt.last   the last of start_notifications / stop_notifications called
\* virt.requested  disconnect() has been called
\* virt.nProcess, virt.age  _process_data calls and ticks since the sensor
\*             last entered its processing loop
\* virt.cb_disc  on_sensor_disconnect invocations
InitVirtual ==
    virt = [pc |-> "new", woken |-> "no", is_connected |-> FALSE,
            start_event |-> FALSE, stop_event |-> FALSE, disconnect_event |-> FALSE,
            timer |-> 0, last |-> "none", requested |-> FALSE,
            nProcess |-> 0, age |-> 0, cb_disc |-> 0]

VirtualOnly == UNCHANGED <<bufVars, codecVars, hrVars, orchVars, fan, hrs, lk, cb>>

\* NervousVirtual.connect after _start_event.wait() has returned: the event
\* is cleared and the inner while is entered, where a set stop event ends the
\* processing loop before its first wait.
RECURSIVE outer_loop(_)
activate(v) ==
    IF v.stop_event
    THEN outer_loop([v EXCEPT !.start_event = FALSE, !.stop_event = FALSE])
    ELSE [v EXCEPT !.start_event = FALSE, !.pc = "wait_stop",
                   !.timer = UpdateTicks, !.nProcess = 0, !.age = 0]

\* ... at the test of its outer while: leave if the disconnect event is set;
\* else wait for the start event, which returns at once if the event is set.
outer_loop(v) ==
    IF v.disconnect_event
    THEN [v EXCEPT !.disconnect_event = FALSE, !.cb_disc = @ + 1, !.pc = "done"]
    ELSE IF v.start_event THEN activate(v)
    ELSE [v EXCEPT !.pc = "wait_start"]

\* ... at the test of its inner while after a _process_data call.
inner_loop(v) ==
    IF v.stop_event THEN outer_loop([v EXCEPT !.stop_event = FALSE])
    ELSE [v EXCEPT !.pc = "wait_stop", !.timer = UpdateTicks]

\* A step of the coroutine connect():
\*  - it is called: _is_connected = True and the dummy sleep;
\*  - the sleep is over: on_sensor_connect, the outer loop begins;
\*  - the start event it waited for was set;
\*  - wait_for returned or timed out: _process_data in both cases.
VirtualTask ==
    /\ \/ /\ virt.pc = "new"
          /\ virt' = [virt EXCEPT !.pc = "dummy", !.is_connected = TRUE]
       \/ /\ virt.pc = "dummy"
          /\ virt' = outer_loop(virt)
       \/ /\ virt.pc = "wait_start" /\ virt.woken = "event"
          /\ virt' = activate([virt EXCEPT !.woken = "no"])
       \/ /\ virt.pc = "wait_stop" /\ virt.woken # "no"
          /\ virt' = inner_loop([virt EXCEPT !.woken = "no",
                                            !.nProcess = Min(@ + 1, MaxProcess)])
    /\ VirtualOnly

\* start_notifications or stop_notifications is called on the sensor once it
\* has reported its connection, or disconnect at any time (before connect()
\* is called, during it, or after it has returned): the event is set, and a
\* coroutine waiting for that event is made ready.
Request(r) ==
    /\ virt.pc \in {"wait_start", "wait_stop"} \/ r = "disconnect"
    /\ virt' =
          CASE r = "start_notifications" ->
                 [virt EXCEPT !.start_event = TRUE, !.last = r,
                              !.woken = IF virt.pc = "wait_start" THEN "event" ELSE @]
            [] r = "stop_notifications" ->
                 [virt EXCEPT !.stop_event = TRUE, !.last = r,
                              !.woken = IF virt.pc = "wait_stop" /\ @ = "no"
                                        THEN "event" ELSE @]
            [] r = "disconnect" ->
                 [virt EXCEPT !.is_connected = FALSE, !.disconnect_event = TRUE,
                              !.requested = TRUE]
    /\ VirtualOnly

\* 0.1 s passes while the sensor waits in wait_for; at the end of the update
\* period the wait times out.
UpdateTick ==
    /\ virt.pc = "wait_stop" /\ virt.woken = "no"
    /\ virt' = [virt EXCEPT !.timer = @ - 1,
                            !.age = Min(@ + 1, UpdateTicks + 1),
                            !.woken = IF virt.timer = 1 THEN "timeout" ELSE @]
    /\ VirtualOnly

NextVirtual ==
    \/ VirtualTask
    \/ \E r \in Requests : Request(r)
    \/ UpdateTick

(***************************************************************************)
(*                 HR SENSOR OVER THE STORE OF ITS ECG SENSOR              *)
(***************************************************************************)
MaxProcessData == 3         \* _process_data calls per run

\* hrs.latest_data  NervousHR._latest_data, the last-seen marker
\* hrs.analyzed     the rows (positions in the store) handed to the analyzer
\*                  by the calls before the last one
\* hrs.last         the last _process_data call: the rows it fetched, the
\*                  marker it found, whether it handed the rows to the
\*                  analyzer and what became of that
NoProcess == [fetched |-> {}, before |-> 0, passed |-> FALSE, outcome |-> "none"]

InitHRSensor == hrs = [latest_data |-> 0, n |-> 0, analyzed |-> {}, last |-> NoProcess]

\* NervousHR._process_data.  The rows newer than the marker are fetched; if
\* there are none the call returns; else the marker becomes the timestamp of
\* the last row fetched.  With the electrodes off the call returns
\* ("skipped"); else the rows go to the analyzer, which returns values,
\* returns nothing or raises, none of which touches the marker.
ProcessData(outcome) ==
    /\ hrs.n < MaxProcessData
    /\ LET t == get_latest_data_columns(data, None, Some(hrs.latest_data),
                                        ByIndex(0), None)
           fetched == {i \in 1..Len(data) : data[i][1] > hrs.latest_data}
           done == hrs.analyzed \cup (IF hrs.last.passed THEN hrs.last.fetched ELSE {})
       IN  IF t.rows = <<>>
           THEN hrs' = [hrs EXCEPT !.n = @ + 1, !.analyzed = done,
                                   !.last = [NoProcess EXCEPT !.before = hrs.latest_data]]
           ELSE hrs' = [hrs EXCEPT !.n = @ + 1, !.analyzed = done,
                                   !.latest_data = t.rows[Len(t.rows)][1],
                                   !.last = [fetched |-> fetched,
                                             before |-> hrs.latest_data,
                                             passed |-> outcome # "skipped",
                                             outcome |-> outcome]]
    /\ UNCHANGED <<bufVars, codecVars, hrVars, orchVars, fan, virt, lk, cb>>

NextHRSensor ==
    \/ \E t \in FrameTimes : \E s \in FrameSamples : DataCallback(t, s)
    \/ \E outcome \in {"skipped", "values", "nothing", "raised"} : ProcessData(outcome)

(***************************************************************************)
(*              THE STORE UNDER ITS LOCK: WRITER AND CONSUMER THREADS      *)
(***************************************************************************)
\* Batch sizes of these runs: a pair of rows and a batch that takes a store of
\* two rows to the upper threshold.
LockedBatchSizes == {2, THRESH2 - 2}

\* lk.owner      who holds DataManager.__lock: "free", "writer", "reader"
\* lk.wpc        the writer in _add_data: "idle", or "extended" (rows added,
\*               length not tested yet)
\* lk.rpc        the consumer in get_latest_data: "idle", or "locked" (lock
\*               taken, table not built yet)
\* lk.committed  the store as the last completed _add_data left it
\* lk.atLock     lk.committed when the consumer took the lock
\* qres holds the result of the consumer's last call until its next call.
InitLock ==
    lk = [owner |-> "free", wpc |-> "idle", rpc |-> "idle",
          committed |-> <<>>, atLock |-> <<>>]

\* A lock that excludes nobody.
can_acquire_always(owner) == TRUE

\* threading.Lock: "with self.__lock" enters when nobody holds the lock.
can_acquire(owner) == owner = "free"

\* The writer thread in _add_data: it takes the lock and extends the store;
\* then it tests the length, truncates, and leaves the lock.
Writer(m) ==
    /\ \/ /\ lk.wpc = "idle" /\ can_acquire(lk.owner)
          /\ nAdds < MaxAdds
          /\ data' = data \o NewRows(nRows, m)
          /\ nAdds' = nAdds + 1
          /\ nRows' = nRows + m
          /\ lastAdd' = [size |-> m, before |-> Len(data)]
          /\ lk' = [lk EXCEPT !.owner = "writer", !.wpc = "extended"]
       \/ /\ lk.wpc = "extended"
          /\ data' = add_data(data, <<>>)
          /\ lk' = [lk EXCEPT !.owner = "free", !.wpc = "idle", !.committed = data']
          /\ UNCHANGED <<nAdds, nRows, lastAdd>>
    /\ UNCHANGED qres
    /\ UNCHANGED <<codecVars, hrVars, orchVars, fan, virt, hrs, cb>>

\* A consumer thread in get_latest_data: it takes the lock; then it builds
\* its table from the store, returns it and leaves the lock.
Reader(last_n, latest_data) ==
    /\ \/ /\ lk.rpc = "idle" /\ can_acquire(lk.owner)
          /\ lk' = [lk EXCEPT !.owner = "reader", !.rpc = "locked",
                              !.atLock = lk.committed]
          /\ qres' = NoQuery
       \/ /\ lk.rpc = "locked"
          /\ LET r == get_latest_data(data, last_n, latest_data)
             IN  qres' = [called |-> TRUE, last_n |-> last_n, latest_data |-> latest_data,
                          kind |-> r.kind, rows |-> r.rows]
          /\ lk' = [lk EXCEPT !.owner = "free", !.rpc = "idle"]
    /\ UNCHANGED <<data, nAdds, nRows, lastAdd>>
    /\ UNCHANGED <<codecVars, hrVars, orchVars, fan, virt, hrs, cb>>

\* The queries of these runs: the newest row, the whole store, the rows
\* after the first one.
LockedQueries == {<<Some(1), None>>, <<Some(-1), None>>, <<None, Some(1)>>}

NextLock ==
    \/ \E m \in LockedBatchSizes : Writer(m)
    \/ \E q \in LockedQueries : Reader(q[1], q[2])

(***************************************************************************)
(*                 THE DATA CALLBACK OF AN ECG SENSOR                      *)
(***************************************************************************)
MaxFailures == 2            \* failed notifications counted per run

\* The notifications received: well-formed frames, a frame whose length code
\* runs past its end, a frame with a zero byte inside, a frame cut short.
Notifications ==
    {time_encode(<<1>>), time_encode(<<0, 2>>), <<3, 1, 0>>, <<2, 0, 1, 0>>, <<2, 5>>}

\* What protobuf_decode makes of the un-stuffed bytes: it raises (None), or
\* gives a timestamp and a block of samples.
Parsed == {None} \cup {Some([timestamp |-> t, samples |-> s]) : t \in FrameTimes, s \in FrameSamples}

\* cb.outcome   what the last call of the callback did: "none", "dropped" (an
\*              error caught and logged), "appended", "raised"
\* cb.before    the store when that call began
\* cb.rows      the rows of the frame, if it was decoded
\* cb.failures  the notifications that failed so far
InitCallback == cb = [outcome |-> "none", before |-> <<>>, rows |-> <<>>, failures |-> 0]

\* A variant of the callback without its try/except.
data_callback_unguarded(store, bytes, parse) ==
    LET d == cobs_decode(bytes)
    IN  IF d.err \/ parse = None
        THEN [outcome |-> "raised", rows |-> <<>>, store |-> store]
        ELSE LET rows == ecg_rows(parse[1].timestamp, parse[1].samples)
             IN  [outcome |-> "appended", rows |-> rows, store |-> add_data(store, rows)]

\* data_callback: un-stuff the frame, parse the payload, make the rows and
\* add them; an exception raised on the way is caught and logged.
data_callback(store, bytes, parse) ==
    LET d == cobs_decode(bytes)
    IN  IF d.err \/ parse = None
        THEN [outcome |-> "dropped", rows |-> <<>>, store |-> store]
        ELSE LET rows == ecg_rows(parse[1].timestamp, parse[1].samples)
             IN  [outcome |-> "appended", rows |-> rows, store |-> add_data(store, rows)]

\* A notification arrives.
Notification(bytes, parse) ==
    /\ nAdds < MaxFrames
    /\ LET r == data_callback(data, bytes, parse)
       IN  /\ data' = r.store
           /\ cb' = [outcome |-> r.outcome, before |-> data, rows |-> r.rows,
                     failures |-> IF r.outcome = "appended" THEN cb.failures
                                  ELSE Min(cb.failures + 1, MaxFailures)]
           /\ nAdds' = IF r.outcome = "appended" THEN nAdds + 1 ELSE nAdds
           /\ nRows' = nRows + Len(r.rows)
           /\ lastAdd' = IF r.outcome = "appended"
                         THEN [size |-> Len(r.rows), before |-> Len(data)] ELSE lastAdd
    /\ frame' = bytes
    /\ decoded' = cobs_decode(bytes)
    /\ UNCHANGED <<qres, payload, cphase>>
    /\ UNCHANGED <<hrVars, orchVars, fan, virt, hrs, lk>>

NextFrames == \E bytes \in Notifications : \E parse \in Parsed : Notification(bytes, parse)

(***************************************************************************)
(*                           SPECIFICATIONS                                *)
(***************************************************************************)
Init == InitBuffer /\ InitCodec /\ InitHR /\ InitOrch /\ InitFan /\ InitVirtual /\ InitHRSensor /\ InitLock /\ InitCallback

SpecBuffer == Init /\ [][NextBuffer]_vars
SpecStore  == Init /\ [][NextStore]_vars
SpecCodec  == Init /\ [][NextCodec]_vars
\* The analyzer's runs do not involve the orchestrator: they start with the
\* orchestrator of one configuration.
InitAnalyzer ==
    Init /\ orch.mgr.K = 1 /\ \A s \in Sensors : orch.mgr.kind[s] = "ble"
SpecHR     == InitAnalyzer /\ [][NextHR]_vars
SpecStream == InitAnalyzer /\ [][NextStream]_vars
SpecFanout == Init /\ [][NextFanout]_vars
SpecFrames == Init /\ [][NextFrames]_vars
SpecLock   == Init /\ [][NextLock]_vars
SpecHRSensor == Init /\ [][NextHRSensor]_vars
\* One virtual sensor; with the event loop running its coroutine and time
\* going on, while nothing obliges anybody to call the sensor.
SpecVirtual == Init /\ [][NextVirtual]_vars
SpecVirtualFair == SpecVirtual /\ WF_vars(VirtualTask) /\ WF_vars(UpdateTick)
\* The orchestrator while stop() is not called, and with stop().
Spec       == Init /\ [][NextOrch]_vars
SpecStop   == Init /\ [][NextOrch \/ NextShutdown]_vars
\* The orchestrator without stop() under a fair event loop: a ready task
\* runs whether its step succeeds or fails; attempts fail without limit and an
\* established link is lost or not.
NextRetry  == NextOrch /\ orch'.obs.drops < MaxDrops
SpecFair   == Init /\ [][NextRetry]_vars /\ EventLoopFairness /\ WF_vars(FailStep)
\* stop() in a run without failures and link losses.
SpecShutdown == Init /\ [][NextCalm \/ NextShutdown]_vars
SpecShutdownFair == SpecShutdown /\ EventLoopFairness

(***************************************************************************)
(*                               CLAIMS                                    *)
(***************************************************************************)

C2_ActivationGating ==
    orch.obs.startSeen => orch.obs.startReported = Sensors

\* C3 (deactivation gating): a disconnect reported while the notification
\* loop polls with notifications on is followed by the stop fan-out within
\* one poll interval, and before the next start fan-out; start and stop
\* fan-outs alternate beginning with start, so that each sensor's
\* stop_notifications count is its start_notifications count or one less.
C3_DeactivationGating ==
    /\ orch.obs.pendingDrop => orch.obs.dropAge <= PollTicks
    /\ orch.obs.pendingDrop => orch.mgr.npc = "poll"
    /\ \A s \in Sensors : orch.obs.nStart[s] - orch.obs.nStop[s] \in {0, 1}
    /\ \A s \in Sensors :
           orch.obs.nStart[s] - orch.obs.nStop[s] = 1
               <=> orch.mgr.npc \in {"starting", "poll"}

\* In the second round of notifications a disconnect was reported while the
\* loop was polling, a full poll interval has passed and the loop is about to run.
C3_Witness ==
    /\ orch.obs.pendingDrop
    /\ orch.obs.dropAge = PollTicks
    /\ \A s \in Sensors : orch.obs.nStart[s] = 2 /\ orch.obs.nStop[s] = 1

\* C9 (callbacks of a successful connection): a connect() call whose link was
\* established and then ended, by the disconnection event alone or with an
\* error raised while closing the client, has invoked on_sensor_connect
\* once, on_sensor_disconnect once and on_sensor_fail_to_connect never.
C9_SuccessProtocol ==
    /\ orch.obs.last.how \in {"link_ended", "close_error", "virtual"} =>
           orch.obs.last.cb = [conn |-> 1, disc |-> 1, fail |-> 0]
    /\ \A s \in Sensors :
           orch.sn[s].cpc \in {"connected", "v_wait_start", "v_running"} =>
               orch.sn[s].cb = [conn |-> 1, disc |-> 0, fail |-> 0]

\* C10 (callbacks of a failed connection): a connect() call that ended
\* because the device was not found, or the handshake or the time-sync write
\* failed, has invoked on_sensor_fail_to_connect once and neither
\* on_sensor_connect nor on_sensor_disconnect; before the connection is
\* established no callback is made at all.
C10_FailureProtocol ==
    /\ orch.obs.last.how \in {"not_found", "handshake_failed", "timesync_failed"} =>
           orch.obs.last.cb = [conn |-> 0, disc |-> 0, fail |-> 1]
    /\ \A s \in Sensors :
           orch.sn[s].cpc \in {"scan", "timesync", "abort"} =>
               orch.sn[s].cb = NoCallbacks

\* A connect() call has just ended on a failed time-sync write, with its one
\* failure callback.
C10_Witness ==
    /\ orch.obs.last.how = "timesync_failed"
    /\ orch.obs.last.cb.fail = 1

C5_QueryExclusivity ==
    (qres.called /\ ((qres.last_n # None) <=> (qres.latest_data # None)))
        => qres.kind = "raise"

\* C6 (framing round-trip): decoding the stuffed and terminated frame of a
\* payload gives back exactly that payload, without a decode error.
C6_RoundTrip ==
    cphase = "decoded" => (~decoded.err /\ decoded.bytes = payload)

\* C6 witness: a payload with an embedded zero and a full 254-byte block has
\* been framed and decoded.
C6_Witness ==
    /\ cphase = "decoded"
    /\ Len(payload) >= 254
    /\ \E i \in 1..Len(payload) : payload[i] = 0
    /\ \E i \in 1..Len(frame) : frame[i] = 255

\* C7: with m the median interval of the previous snapshot (m defined and not
\* zero), every interval of the walk that is more than 30% shorter than m
\* emits no rate and has its later peak removed, so that the next interval
\* is measured from the same earlier peak; every interval more than 30%
\* longer than m emits no rate, keeps its later peak, and the next interval
\* is measured from that peak.  The relative change (m - i) / m > 3/10 is
\* written with both sides multiplied by 20 m^2, M being 2 m.
C7_IntervalRejection ==
    (hrOut.m2 # None /\ hrOut.m2[1] # 0) =>
        \A k \in 1..Len(hrOut.steps) :
            LET s == hrOut.steps[k]
                i == s.to - s.from
                M == hrOut.m2[1]
                last == k = Len(hrOut.steps)
            IN  /\ 10 * (M - 2 * i) * M > 3 * M * M =>
                       /\ s.verdict = "removed"
                       /\ s.after = s.before
                       /\ \A j \in 1..Len(hrOut.ts) : hrOut.ts[j] # s.to
                       /\ ~last => hrOut.steps[k + 1].from = s.from
                /\ 10 * (2 * i - M) * M > 3 * M * M =>
                       /\ s.verdict = "long"
                       /\ s.after = s.before
                       /\ \A j \in 1..Len(hrOut.ts) : hrOut.ts[j] # s.to
                       /\ ~last => hrOut.steps[k + 1].from = s.to

\* A call whose walk, under a positive median, removed a too-short peak and
\* went on from the same anchor, and passed a too-long interval and went on
\* from its later peak.
C7_Witness ==
    /\ hrOut.m2 # None
    /\ hrOut.m2[1] > 0
    /\ \E k \in 1..(Len(hrOut.steps) - 1) :
           /\ 20 * (hrOut.steps[k].to - hrOut.steps[k].from) < 7 * hrOut.m2[1]
           /\ hrOut.steps[k].verdict = "removed"
           /\ hrOut.steps[k + 1].from = hrOut.steps[k].from
    /\ \E k \in 1..(Len(hrOut.steps) - 1) :
           /\ 20 * (hrOut.steps[k].to - hrOut.steps[k].from) > 13 * hrOut.m2[1]
           /\ hrOut.steps[k].verdict = "long"
           /\ hrOut.steps[k + 1].from = hrOut.steps[k].to

\* C8: when update_hr has received a chunk whose first timestamp is more than
\* 0.01 s away from the window's last timestamp, the peak history and the
\* previous snapshot were both emptied before the chunk was processed (or the
\* call returned), and a call emits a rate only when at least two peaks have
\* been confirmed since the last such chunk.
C8_DiscontinuityReset ==
    /\ (hrOut.called /\ hrOut.gap) =>
           (hrOut.histAtProcess = <<>> /\ hrOut.prevAtProcess = <<>>)
    /\ (hrOut.called /\ hrOut.hr # <<>>) => Cardinality(sinceGap) >= 2


\* C11 (stable run): as long as every sensor has connected at its first
\* attempt and stayed connected and stop() has not been called, connect() has
\* been invoked at most once on each sensor and start_notifications at most
\* once, and stop_notifications and disconnect() never; once every sensor is
\* connected and the notification loop polls, each sensor has had exactly one
\* connect() and exactly one start_notifications.
C11_StableRun ==
    orch.obs.stable /\ orch.mgr.spc = "idle" =>
        /\ \A s \in Sensors :
               /\ orch.obs.nConnect[s] <= 1
               /\ orch.obs.nStart[s] <= 1
               /\ orch.obs.nStop[s] = 0
               /\ orch.obs.nDisconnect[s] = 0
        /\ Settled(orch) =>
               \A s \in Sensors :
                   orch.obs.nConnect[s] = 1 /\ orch.obs.nStart[s] = 1

\* A stable run with one permit has settled: both sensors are connected, the
\* notifications are on and the loop has polled its way through a sleep.
C11_Witness ==
    /\ orch.obs.stable
    /\ orch.mgr.K = 1
    /\ Settled(orch)
    /\ orch.mgr.notifications_active
    /\ orch.mgr.ntimer = 0
    /\ \A s \in Sensors : orch.obs.nConnect[s] = 1


\* C12 (stop() after start): when stop() is called with every sensor
\* connected and the notifications started, stop_notifications is invoked
\* at most once and disconnect() at most once on every sensor, exactly once
\* each when stop() has returned, and no disconnect() is invoked before
\* stop_notifications has been invoked on all sensors.
C12_StopAfterStart ==
    orch.obs.stopSettled /\ orch.obs.stops = 1 =>
        /\ \A s \in Sensors :
               orch.obs.nStop[s] <= 1 /\ orch.obs.nDisconnect[s] <= 1
        /\ orch.mgr.spc = "done" =>
               \A s \in Sensors :
                   orch.obs.nStop[s] = 1 /\ orch.obs.nDisconnect[s] = 1
        /\ \A s, t \in Sensors :
               orch.obs.nDisconnect[s] >= 1 => orch.obs.nStop[t] >= 1


\* C13 (stop tears down every loop): once stop() has been called, every
\* per-sensor manage_connection loop, the notification loop and the battery
\* loop eventually exit, so that start() returns.
C13_StopTearsDown == orch.mgr.stop_event ~> LoopsDone(orch)


\* C14 (stop() is idempotent): a stop() called after an earlier stop() has
\* returned, with the system at rest and every sensor disconnected, changes
\* none of the flags: every sensor's connection state and start, stop and
\* disconnect events, the permit count, the stop event and the notifications
\* flag stay as that call found them; and when it has returned every sensor
\* is disconnected, the notifications are off and the stop event is set.
C14_StopIdempotent ==
    (/\ orch.obs.atRest # None
     /\ \A s \in Sensors : ~orch.obs.atRest[1].sn[s].link) =>
        /\ Flags(orch) = orch.obs.atRest[1]
        /\ orch.mgr.spc = "done" =>
               /\ \A s \in Sensors : ~is_connected(orch, s)
               /\ ~orch.mgr.notifications_active
               /\ orch.mgr.stop_event


\* C20 (permit lifetime): every permit acquired for a connection attempt is
\* given back by the end of the attempt: a sensor whose manage_connection
\* task is between attempts (at the loop test, asleep, or done) holds no
\* permit, no sensor ever holds more than one, and a sensor in its
\* established connection holds none.
C20_PermitLifetime ==
    \A s \in Sensors :
        /\ orch.sn[s].held \in {0, 1}
        /\ orch.sn[s].mpc \in {"loop", "sleep", "errsleep", "done"} =>
               orch.sn[s].held = 0
        /\ orch.sn[s].cpc \in {"connected", "v_wait_start", "v_running"} =>
               orch.sn[s].held = 0


\* The timestamps of the rows of a store never go down along the store.
Monotonic(store) ==
    \A i \in 1..(Len(store) - 1) : store[i][1] <= store[i + 1][1]

\* C15 (timestamp monotonicity): in every state of a sensor's store the
\* timestamps of the retained rows are non-decreasing in sequence order.
C15_TimestampMonotonic == Monotonic(data)


\* The store as the table of the columns a query has asked for.
FullTable(store, cols) == [i \in 1..Len(store) |-> Project(store[i], cols)]

\* C16 (last-N query): get_latest_data(last_n = n) returns the full store
\* when n = -1 or n is at least the current length, and for 0 <= n below the
\* current length exactly the n most recent rows, in store order.
C16_LastN ==
    (qres.called /\ qres.last_n # None /\ qres.latest_data = None) =>
        LET n == qres.last_n[1]
            full == FullTable(data, qres.columns)
        IN  /\ qres.kind = "table"
            /\ IF n = -1 \/ n >= Len(data)
               THEN qres.rows = full
               ELSE n >= 0 =>
                       /\ Len(qres.rows) = n
                       /\ \A i \in 1..n : qres.rows[i] = full[Len(data) - n + i]


\* The positions of the store whose value in the key column is above t.
Above(store, key, t) == {i \in 1..Len(store) : store[i][ColumnOf(key)] > t}

\* C17 (since-timestamp query): get_latest_data(latest_data = t), with the
\* timestamp column as the key and that column among the requested ones,
\* returns exactly the rows of the store whose timestamp is strictly greater
\* than t, in store order: one result row per such store row, none for a row
\* with timestamp equal to or below t.
C17_SinceTimestamp ==
    (/\ qres.called /\ qres.latest_data # None /\ qres.last_n = None
     /\ resolve_key(qres.key) = Header[1]
     /\ \E i \in 1..Len(qres.columns) : qres.columns[i] = Header[1]) =>
        LET t == qres.latest_data[1]
            I == Above(data, Header[1], t)
            full == FullTable(data, qres.columns)
        IN  /\ qres.kind = "table"
            /\ Len(qres.rows) = Cardinality(I)
            /\ \A i \in I :
                   qres.rows[Cardinality({j \in I : j <= i})] = full[i]

\* A since query on a store of three frames that is not in timestamp order
\* and holds a row equal to the marker: it keeps some rows and drops others.
C17_Witness ==
    /\ qres.called /\ qres.latest_data # None /\ qres.last_n = None
    /\ resolve_key(qres.key) = Header[1]
    /\ qres.kind = "table"
    /\ ~Monotonic(data)
    /\ \E i \in 1..Len(data) : data[i][1] = qres.latest_data[1]
    /\ Len(qres.rows) >= 2
    /\ Len(qres.rows) < Len(data)


\* C18 (well-typed result): a query in exactly one mode, for any subset of
\* the existing columns given by name or by index, returns a table, possibly
\* empty, whose columns are exactly the requested ones; it never returns
\* None.
C18_WellTyped ==
    qres.called =>
        /\ qres.kind = "table"
        /\ qres.columns = resolve_columns(qres.concerned)
        /\ \A i \in 1..Len(qres.rows) : Len(qres.rows[i]) = Len(qres.columns)


\* C19 (analyzer failure semantics): update_hr never raises, and a chunk it
\* rejects gives no results.
C19_AnalyzerFailure ==
    hrOut.called =>
        /\ hrOut.outcome = "return"
        /\ hrOut.zero => ~hrOut.lists /\ hrOut.hr = None /\ hrOut.ts = None


\* C21 (retry without starvation): while stop() is not called, a sensor whose
\* manage_connection task is not inside connect() (it is at the loop test,
\* waiting for a permit or asleep after an attempt) eventually is inside
\* connect() again, whatever its own and the other sensors' attempts do.
C21_RetryNoStarvation ==
    \A s \in Sensors :
        (orch.sn[s].mpc # "connect") ~> (orch.sn[s].mpc = "connect")


\* An attempt has failed, and one sensor is scanning in a new attempt while
\* another one is queued for a permit.
C21_Witness ==
    /\ ~orch.obs.stable /\ orch.obs.drops = 0
    /\ \E s, t \in Sensors :
           /\ orch.sn[s].mpc = "connect" /\ orch.sn[s].cpc = "scan"
           /\ orch.sn[t].mpc = "acquire"


\* C22 (no exception reaches the orchestrator): every connect() call that has
\* ended returned to manage_connection instead of raising, and a call ended
\* by a failure of the scan, the handshake, the time-sync write or the
\* established link has invoked on_sensor_fail_to_connect or
\* on_sensor_disconnect.
C22_FailuresBecomeCallbacks ==
    orch.obs.last.how # "none" =>
        /\ orch.obs.last.how # "scan_error"
        /\ orch.obs.last.cb.fail + orch.obs.last.cb.disc >= 1


\* C23 (fan-out isolation): when a fan-out is over and the operation of one
\* sensor has raised, the operation of every other sensor has run to its end
\* (completed, or raised itself); none was cancelled or never run.
C23_FanoutIsolation ==
    (fan.op = "none" /\ \E s \in Sensors : fan.task[s] = "raised") =>
        \A t \in Sensors : fan.task[t] \in {"done", "raised"}


\* C24 (virtual sensor disconnect): once disconnect() has been called on a
\* connected virtual sensor, idle or active, its connect() eventually returns,
\* having invoked on_sensor_disconnect.
C24_VirtualDisconnect ==
    virt.requested ~> (virt.pc = "done" /\ virt.cb_disc = 1)

\* C25 (start/stop toggle): when the sensor task has handled the requests
\* made so far (it waits, and nothing has made it ready), the sensor is
\* active, waiting in its processing loop, exactly if the last request was
\* start_notifications.
C25_Toggle ==
    (virt.pc \in {"wait_start", "wait_stop"} /\ virt.woken = "no" /\ ~virt.requested) =>
        ((virt.pc = "wait_stop") <=> (virt.last = "start_notifications"))

\* C26 (processing schedule): an active sensor that has been waiting for
\* some time since its activation has already called _process_data: the
\* first call comes at the activation, not an update period later.
C26_Schedule ==
    (virt.pc = "wait_stop" /\ virt.age >= 1) => virt.nProcess >= 1


\* C27 (watermark): a _process_data call that fetched rows has set the marker
\* to the timestamp of the last row it fetched, whatever became of the rows
\* (analyzer returned values or nothing, raised, or was skipped); the marker
\* is not below the one the call found; and no row it handed to the analyzer
\* was handed to the analyzer by an earlier call.
C27_Watermark ==
    /\ hrs.last.fetched # {} =>
           \E i \in hrs.last.fetched :
               /\ \A j \in hrs.last.fetched : j <= i
               /\ hrs.latest_data = data[i][1]
    /\ hrs.latest_data >= hrs.last.before
    /\ hrs.last.passed => hrs.last.fetched \cap hrs.analyzed = {}


\* C28 (buffer atomicity): the result of a query is the result the query
\* gives on the store as the last append completed before the query took the
\* lock left it, truncation included; a consumer that holds the lock sees
\* that store, never one with rows added and the truncation still to come.
C28_BufferAtomicity ==
    /\ qres.called =>
           qres.rows = get_latest_data(lk.atLock, qres.last_n, qres.latest_data).rows
    /\ lk.rpc = "locked" => data = lk.committed /\ lk.atLock = lk.committed

\* A consumer has read the whole store, which a truncating append had just
\* cut to its lower threshold, and the writer is in the middle of the next
\* append.
C28_Witness ==
    /\ qres.called /\ qres.last_n = Some(-1)
    /\ Len(qres.rows) = THRESH1
    /\ lk.wpc = "extended"


\* C29 (truncation keeps the newest rows in order): the store is the last
\* Len(store) rows of the sequence of all rows ever appended, in the order
\* of their appending (the k-th row ever appended carries the time k).
C29_NewestSuffix ==
    /\ Len(data) <= nRows
    /\ data = NewRows(nRows - Len(data), Len(data))

\* A truncation has removed rows: the store holds the lower threshold of
\* rows, fewer than were appended.
C29_Witness == Len(data) = THRESH1 /\ nRows > THRESH2 /\ lastAdd.size > 0


\* C30 (frame error isolation): no call of the data callback raises; a call
\* whose frame fails un-stuffing or whose payload fails parsing leaves the
\* store as it was; and a call with a well-formed frame, also after failed
\* ones, adds exactly the rows of its frame.
C30_FrameIsolation ==
    /\ cb.outcome # "raised"
    /\ (decoded.err /\ cb.outcome # "none") => cb.outcome = "dropped"
    /\ cb.outcome = "dropped" => data = cb.before
    /\ cb.outcome = "appended" =>
           /\ ~decoded.err
           /\ data = cb.before \o cb.rows

\* After notifications that failed, a well-formed frame has been decoded and
\* its rows added to a store that already held rows.
C30_Witness ==
    /\ cb.outcome = "appended" /\ cb.failures = MaxFailures
    /\ cb.before # <<>> /\ cb.rows # <<>>


\* C31 (heart-rate emission): a call emits as many rates as timestamps; each
\* emitted rate is 60 / interval, rounded to two decimals, for an interval
\* between two consecutive peaks of the walked sequence, each of them a peak
\* of the history or the newest peak of the previous snapshot; 0.3 s <= interval <= 2.0 s; when the previous snapshot has
\* at least two peaks the interval is within 30% of its median interval M/2
\* (7 M <= 20 interval <= 13 M); the timestamp is the later peak; hence the
\* rate lies between 30 and 200 beats per minute.  Rates are in hundredths.
C31_Emission ==
    LET rated == SelectSeq(hrOut.steps, LAMBDA s : s.verdict = "rate")
        prev == hrOut.prevAtProcess
        peaks == {history[j] : j \in 1..Len(history)}
                     \cup (IF prev = <<>> THEN {} ELSE {prev[Len(prev)]})
    IN  /\ Len(hrOut.hr) = Len(hrOut.ts)
        /\ Len(hrOut.hr) = Len(rated)
        /\ \A i \in 1..Len(hrOut.hr) :
               LET interval == rated[i].to - rated[i].from
               IN  /\ interval >= 30 /\ interval <= 200
                   /\ 2 * interval * hrOut.hr[i] - interval <= 2 * 600000
                   /\ 2 * interval * hrOut.hr[i] + interval >= 2 * 600000
                   /\ hrOut.ts[i] = rated[i].to
                   /\ {rated[i].from, rated[i].to} \subseteq peaks
                   /\ Len(hrOut.prevAtProcess) >= 2 =>
                          /\ hrOut.m2 # None
                          /\ 7 * hrOut.m2[1] <= 20 * interval
                          /\ 20 * interval <= 13 * hrOut.m2[1]
                   /\ hrOut.hr[i] >= 3000 /\ hrOut.hr[i] <= 20000

\* A call that emitted a rate against a snapshot of at least two peaks, and
\* in the same walk refused another interval.
C31_Witness ==
    /\ Len(hrOut.prevAtProcess) >= 2
    /\ Len(hrOut.hr) >= 1
    /\ \E k \in 1..Len(hrOut.steps) : hrOut.steps[k].verdict # "rate"


\* C32 (no emission without new information): a call whose history, after
\* the history update, equals the previous snapshot or holds fewer than two
\* peaks emits no rate and no timestamp; after every call the previous
\* snapshot equals the history; so a call that adds no peak to the history
\* it found emits nothing.
C32_NoNews ==
    /\ previous = history
    /\ hrOut.called =>
           /\ (history = hrOut.prevAtProcess \/ Len(history) < 2) =>
                  (hrOut.hr = <<>> /\ hrOut.ts = <<>> /\ ~hrOut.lists)
           /\ history = hrOut.histAtProcess => (hrOut.hr = <<>> /\ hrOut.ts = <<>>)

\* A processed call that confirmed no new peak on a history of two peaks or
\* more (and emitted nothing), the call before having left that history.
C32_Witness ==
    /\ hrOut.called /\ hrOut.outcome = "return" /\ ~hrOut.zero /\ ~hrOut.gap
    /\ Len(history) >= 2
    /\ history = hrOut.histAtProcess
    /\ history = hrOut.prevAtProcess
    /\ hrOut.hr = <<>>


\* C33 (sorted peak history): after every history update the peak history is
\* strictly increasing in timestamp, also when a newly confirmed peak is
\* older than the newest peak already in the history.
C33_SortedHistory ==
    \A i \in 1..(Len(history) - 1) : history[i] < history[i + 1]


\* C34 (bounded peak history): after every history update the history holds
\* a single peak (or none), or its newest peak is at most history_size later
\* than its oldest peak.
C34_BoundedHistory ==
    Len(history) > 1 =>
        \A i, j \in 1..Len(history) : history[j] - history[i] <= HistorySize

\* C35 (peak separation): after every history update any two distinct peaks
\* of the history are at least 0.3 s apart, two peaks added by the same call
\* included.
C35_Separation ==
    \A i, j \in 1..Len(history) :
        i # j => Abs(history[i] - history[j]) >= 30


\* C36 (permit conservation): for every K, in every reachable state, the
\* available permits plus the connection attempts in flight (the sensors
\* whose manage_connection task is at acquire or inside connect() with a
\* permit that was given to it and not yet released) make K: no permit is
\* leaked on the exception path and none is released twice.
C36_PermitConservation ==
    orch.mgr.value
        + Cardinality({s \in Sensors : /\ orch.sn[s].mpc \in {"acquire", "connect"}
                                       /\ orch.sn[s].held >= 1})
        = orch.mgr.K


\* C37 (all-connected flag soundness): for every K, whenever the
\* all-connected event is set, the last callback of every managed sensor was
\* on_sensor_connect: each has completed a connection and has neither failed
\* nor reported a disconnect since, and none is still inside an attempt that
\* has not reported yet.
C37_AllConnectedSound ==
    orch.mgr.all_connected =>
        \A s \in Sensors : orch.sn[s].reported


\* C38 (no connection outlives stop()): from the return of stop() on, and as
\* long as stop() is not called again, no sensor is connected, whatever the
\* sensor was doing when stop() was called.
C38_NoConnectionAfterStop ==
    orch.mgr.spc = "done" => \A s \in Sensors : ~is_connected(orch, s)


\* C39 (notifications are off after stop()): from the return of stop() on,
\* and as long as stop() is not called again, are_notifications_active() is
\* false, for every interleaving of stop() with the notification loop.
C39_NotificationsOffAfterStop ==
    orch.mgr.spc = "done" => ~orch.mgr.notifications_active


\* C40 (virtual sensor connected flag): is_connected() is true only while
\* connect() is running: it is false before connect() is called and after
\* connect() has returned, for every order of connect() and disconnect(),
\* disconnect() before connect() included.
C40_ConnectedOnlyWhileRunning ==
    virt.is_connected => virt.pc \in {"dummy", "wait_start", "wait_stop"}

=============================================================================
